---- MODULE Spec2Model ----
(***************************************************************************)
(* RhythmGen: chart generation (beatmap.py, generate_beatmap) and the      *)
(* play session (game.py, RhythmGame).                                     *)
(*                                                                         *)
(* Time.  Every time value is an integer number of units of 25 us, one     *)
(* quarter of the 1e-4 s resolution that round(x, 4) produces.  A value    *)
(* that went through round(x, 4) is a multiple of 4 units.                 *)
(*   0.05 s = 2000   0.1 s = 4000   0.125 s = 5000   0.2 s = 8000          *)
(*   0.25 s = 10000  1 s = 40000    1 ms = 40                              *)
(***************************************************************************)
EXTENDS Integers, Sequences, FiniteSets, TLC

----------------------------------------------------------------------------
(* Bounds of the explored inputs *)

MaxBeats == 3
MaxPeaks == 2
MaxLanes == 4

(* Instants at which the beat tracker may report a beat (whole 1e-4 s, as  *)
(* the quarter interpolation of the grid is then exact in units).          *)
BeatTimes == {8000, 12004, 16008, 20008}

(* Instants and energies of RMS frames that are local maxima at or above   *)
(* the 75th percentile (line 46, before the 0.05 s edge filter of line 47).*)
(* A local maximum is strictly above a neighbour, so its energy is > 0,    *)
(* and two of them are at least two frames apart: these are the times of   *)
(* frames 3, 19, 21 and 36 (hop 256 at 22050 Hz, line 38).                 *)
PeakTimes == {1393, 8824, 9753, 16718}
Energies == {1, 2}

(* len(y) / sr; 0 is the empty buffer *)
Durations == {0, 8002, 20003, 28001, 400000}

Difficulties == {0, 6400, 8000, 12000}
LaneCounts == 0..MaxLanes

----------------------------------------------------------------------------
(* Generic helpers *)

Abs(x) == IF x < 0 THEN -x ELSE x
Max2(a, b) == IF a >= b THEN a ELSE b
Min2(a, b) == IF a <= b THEN a ELSE b

SetMin(S) == CHOOSE x \in S : \A y \in S : x <= y
SetMax(S) == CHOOSE x \in S : \A y \in S : x >= y

RECURSIVE SortedSeqOf(_)
(* the elements of a finite set of integers in ascending order *)
SortedSeqOf(S) ==
    IF S = {} THEN <<>>
    ELSE LET m == SetMin(S) IN <<m>> \o SortedSeqOf(S \ {m})


----------------------------------------------------------------------------
(* beatmap.py *)

VARIABLES
    gen_pc,          \* position in generate_beatmap
    gen_error,       \* "none" or the exception that left generate_beatmap
    duration,        \* len(y) / sr
    difficulty,      \* parameter
    lanes,           \* parameter
    beats,           \* beat_track result, as times
    rms_peaks,       \* frames passing is_peak & (rms >= thresh), as time/energy
    sixteenth_grid,
    peaks,
    all_cands,
    merged,
    norm,            \* numerators of the normalised energies
    norm_den,        \* their common denominator (energies.max() - energies.min())
    notes,           \* the chart under construction, then the return value
    emitted          \* history: notes as the spacing pass left them (line 92)

gen_vars == <<gen_pc, gen_error, duration, difficulty, lanes, beats, rms_peaks,
              sixteenth_grid, peaks, all_cands, merged, norm, norm_den, notes,
              emitted>>

(* game.py, RhythmGame *)
VARIABLES
    game_pc,                \* "idle", "frame", "events", "update", "exited"
    wall,                   \* pygame.time.get_ticks()
    beatmap,                \* the constructor's argument
    song_len,               \* self.song.get_length(), 0 without a song
    play_delay,             \* time song.play() takes (lines 486-487)
    latency_offset,
    self_notes,             \* self.notes
    total_note_count,
    score,
    combo,
    max_combo,
    multiplier,
    perfect_hits_in_combo,
    missed_notes,
    accuracy,               \* the float as [num, den]
    start_time_ms,
    countdown_active,
    countdown_start_time,
    paused,
    pause_start_time,
    total_pause_time,
    game_ended,
    end_screen_action,
    running,
    current_ticks,          \* run()'s local
    current_time,           \* run()'s local
    n_events,               \* events taken from the queue in this frame
    n_pauses,               \* history: times the session was paused
    slips,                  \* history: whiffs and Good hits, see Slip
    judged                  \* history: the lane key and check_hit call of
                            \* the latest step

game_vars == <<game_pc, wall, beatmap, song_len, play_delay, latency_offset, self_notes,
               total_note_count, score, combo, max_combo, multiplier,
               perfect_hits_in_combo, missed_notes, accuracy, start_time_ms,
               countdown_active, countdown_start_time, paused, pause_start_time,
               total_pause_time, game_ended, end_screen_action, running,
               current_ticks, current_time, n_events, n_pauses, slips, judged>>

(* main.py, main(): the loading threads and the retry loop *)
VARIABLES
    ld_pc,                  \* main thread: "idle", "menu", "wait_download",
                            \* "wait_beatmap", "start_game", "game", "exit",
                            \* "crashed"
    dl_pc,                  \* download_task: "idle", "running", "finally", "done"
    bm_pc,                  \* beatmap_task: "idle", "started", "generating",
                            \* "finally", "done"
    media_info,
    main_beatmap,           \* main()'s variable beatmap
    error,                  \* "none", "download", "beatmap"
    download_complete,
    beatmap_complete,
    bm_notes,               \* the list generate_beatmap is building
    loading_frames,         \* iterations of the running update_loading_loop
    n_games                 \* history: sessions started with this chart

load_vars == <<ld_pc, dl_pc, bm_pc, media_info, main_beatmap, error,
               download_complete, beatmap_complete, bm_notes, loading_frames,
               n_games>>

(* menu.py, MainMenu: the URL screen, its search results and the search    *)
(* thread of run()                                                         *)
VARIABLES
    menu_pc,                \* main thread in run(): "idle", "events",
                            \* "clear_index", "returned", "raised"
    showing_instructions,
    showing_url_input,
    url_input_text,
    search_results,
    selected_video_index,
    is_searching,
    search_pc,              \* search_task: "none" (no thread alive), "fetch",
                            \* "store", "select", "except", "except_index",
                            \* "finally"
    results,                \* search_task's local
    menu_choice             \* run()'s local choice: "none", "quit", "play"

menu_vars == <<menu_pc, showing_instructions, showing_url_input, url_input_text,
               search_results, selected_video_index, is_searching, search_pc,
               results, menu_choice>>

vars == <<gen_vars, game_vars, load_vars, menu_vars>>

(* round(x, 4): to the nearest multiple of 4 units, halves to even *)
Round4(x) ==
    LET lo == x \div 4
        r  == x % 4
    IN  IF r < 2 THEN 4 * lo
        ELSE IF r > 2 THEN 4 * (lo + 1)
        ELSE IF lo % 2 = 0 THEN 4 * lo ELSE 4 * (lo + 1)

Cand(t, e) == [time |-> t, energy |-> e]
Note(t, l) == [time |-> t, lane |-> l]

(* main.py line 36: media_info = None *)
NoMedia == [chart |-> <<>>, len |-> -1, delay |-> 0]
(* main.py line 37: beatmap = None *)
NoChart == <<Note(-1, -1)>>

(* main.py lines 36-40 *)
SharedReset ==
    /\ media_info = NoMedia
    /\ main_beatmap = NoChart
    /\ error = "none"
    /\ download_complete = FALSE
    /\ beatmap_complete = FALSE

LoadIdle ==
    /\ ld_pc = "idle"
    /\ dl_pc = "idle"
    /\ bm_pc = "idle"
    /\ SharedReset
    /\ bm_notes = <<>>
    /\ loading_frames = 0
    /\ n_games = 0

(* menu.py lines 51-60: the state MainMenu.__init__ leaves *)
MenuConstructed ==
    /\ showing_instructions = FALSE
    /\ showing_url_input = FALSE
    /\ url_input_text = <<>>
    /\ search_results = <<>>
    /\ selected_video_index = -1
    /\ is_searching = FALSE
    /\ search_pc = "none"
    /\ results = <<>>
    /\ menu_choice = "none"

MenuIdle == MenuConstructed /\ menu_pc = "idle"

(* game.py: the state RhythmGame.__init__ and the first line of run() leave *)
NoJudgement == [key |-> FALSE, called |-> FALSE, lane |-> 0, now |-> 0,
                idx |-> 0, note |-> Note(0, 0)]

(* lines 242-312 and line 473 *)
Construct(chart, len, lat, delay) ==
    /\ beatmap = chart
    /\ song_len = len
    /\ play_delay = delay
    /\ latency_offset = lat
    /\ self_notes = chart
    /\ total_note_count = Len(chart)
    /\ score = 0
    /\ combo = 0
    /\ max_combo = 0
    /\ multiplier = 1
    /\ perfect_hits_in_combo = 0
    /\ missed_notes = 0
    /\ accuracy = [num |-> 100, den |-> 1]
    /\ start_time_ms = 0
    /\ countdown_active = TRUE
    /\ countdown_start_time = 0
    /\ paused = FALSE
    /\ pause_start_time = 0
    /\ total_pause_time = 0
    /\ game_ended = FALSE
    /\ end_screen_action = "None"
    /\ running = TRUE
    /\ current_ticks = 0
    /\ current_time = 0
    /\ wall = 0
    /\ n_events = 0
    /\ n_pauses = 0
    /\ slips = 0
    /\ judged = NoJudgement

GameIdle ==
    /\ game_pc = "idle"
    /\ Construct(<<>>, 0, 0, 0)

----------------------------------------------------------------------------
(* beatmap.py: the steps of generate_beatmap *)

(* lines 24-31: four grid points per beat interval, then the last beat *)
RECURSIVE BeatGrid(_, _)
BeatGrid(bt, i) ==
    IF i > Len(bt) - 1 THEN <<bt[Len(bt)]>>
    ELSE LET interval4 == bt[i + 1] - bt[i]      \* 4 * interval
         IN  [j \in 1..4 |-> (4 * bt[i] + (j - 1) * interval4) \div 4]
             \o BeatGrid(bt, i + 1)

(* lines 34-35: np.arange(0.0, duration, grid_interval) *)
FallbackGrid(dur, diff) ==
    LET grid_interval == Max2(5000, diff)
        n == (dur + grid_interval - 1) \div grid_interval
    IN  [k \in 1..n |-> (k - 1) * grid_interval]

(* line 61: min(sixteenth_grid, key=...) returns the first minimal element *)
Nearest(grid, t) ==
    LET d(i) == Abs(grid[i] - t)
        best == CHOOSE i \in 1..Len(grid) :
                    /\ \A k \in 1..Len(grid) : d(i) <= d(k)
                    /\ \A k \in 1..(i - 1) : d(k) > d(i)
    IN  grid[best]

(* lines 60-62 *)
Snap(cands, grid) ==
    [i \in 1..Len(cands) |->
        Cand(Round4(Nearest(grid, cands[i].time)), cands[i].energy)]

(* line 65, {c["time"]: c for c in all_cands}: a later item replaces an    *)
(* earlier one under the same key                                          *)
RECURSIVE DictByTime(_, _)
DictByTime(cands, i) ==
    IF i = 0 THEN << >>
    ELSE LET d == DictByTime(cands, i - 1)
             c == cands[i]
         IN  [k \in (DOMAIN d) \cup {c.time} |->
                 IF k = c.time THEN c ELSE d[k]]

(* line 65, sorted(....values(), key=lambda x: x["time"]) *)
Dedup(cands) ==
    LET d == DictByTime(cands, Len(cands))
        keys == SortedSeqOf(DOMAIN d)
    IN  [i \in 1..Len(keys) |-> d[keys[i]]]

(* lines 68-72: energies as numerators over the common denominator         *)
(* energies.max() - energies.min(); all zeros over 1 when they are equal   *)
EnergiesOf(m) == {m[i].energy : i \in 1..Len(m)}

NormDen(m) ==
    IF Len(m) > 0 /\ SetMax(EnergiesOf(m)) > SetMin(EnergiesOf(m))
    THEN SetMax(EnergiesOf(m)) - SetMin(EnergiesOf(m))
    ELSE 1

NormNum(m) ==
    IF Len(m) > 0 /\ SetMax(EnergiesOf(m)) > SetMin(EnergiesOf(m))
    THEN [i \in 1..Len(m) |-> m[i].energy - SetMin(EnergiesOf(m))]
    ELSE [i \in 1..Len(m) |-> 0]

(* line 76: last_t = -1e9, a time before every candidate *)
LastTInit == -1000000000
(* line 77: last_lane = None *)
NoLane == -1

(* line 83 without the clamp of line 84 *)
LaneOfUnclamped(num, den, nl) == (num * nl) \div den

(* lines 83-84: lane = int(v * lanes); lane = max(0, min(lanes - 1, lane)) *)
LaneOf(num, den, nl) == Max2(0, Min2(nl - 1, (num * nl) \div den))

(* line 80 comparing against 0 instead of difficulty *)
TooCloseIgnoringDifficulty(t, last_t, diff) == t - last_t < 0

(* line 80: the candidate is skipped *)
TooClose(t, last_t, diff) == t - last_t < diff

(* lines 78-92 without the rotation of lines 87-88 *)
RECURSIVE SpacingPassNoRotation(_, _, _, _, _, _)
SpacingPassNoRotation(m, nums, den, diff, nl, i) ==
    IF i = 0 THEN [notes |-> <<>>, last_t |-> LastTInit, last_lane |-> NoLane,
                   err |-> FALSE]
    ELSE LET s == SpacingPassNoRotation(m, nums, den, diff, nl, i - 1)
             t == m[i].time
             lane == LaneOf(nums[i], den, nl)
         IN  IF TooClose(t, s.last_t, diff) THEN s
             ELSE [notes |-> Append(s.notes, Note(t, lane)),
                   last_t |-> t, last_lane |-> lane, err |-> FALSE]

(* lines 78-92.  The state of the loop is [notes, last_t, last_lane, err];  *)
(* err is set when line 88 divides by lanes = 0.                           *)
RECURSIVE SpacingPass(_, _, _, _, _, _)
SpacingPass(m, nums, den, diff, nl, i) ==
    IF i = 0 THEN [notes |-> <<>>, last_t |-> LastTInit, last_lane |-> NoLane,
                   err |-> FALSE]
    ELSE LET s == SpacingPass(m, nums, den, diff, nl, i - 1)
             t == m[i].time
             lane == LaneOf(nums[i], den, nl)
             repeat == s.last_lane # NoLane /\ lane = s.last_lane
         IN  IF s.err THEN s
             ELSE IF TooClose(t, s.last_t, diff) THEN s
             ELSE IF repeat /\ nl = 0 THEN [s EXCEPT !.err = TRUE]
             ELSE LET l == IF repeat THEN (lane + 1) % nl ELSE lane
                  IN  [notes |-> Append(s.notes, Note(t, l)),
                       last_t |-> t, last_lane |-> l, err |-> FALSE]

(* line 96 with the lower limit of line 100 *)
EmptyEndTimeAsLine100(dur) == Round4(Max2(2000, dur - 2000))

(* line 96: the end note of a chart that had no note *)
EmptyEndTime(dur) == Round4(Max2(8000, dur - 2000))
(* line 100: end_t *)
EndTime(dur) == Round4(Max2(2000, dur - 2000))
(* line 98 with the threshold of 0.5 s *)
NeedsStartLate(ns) == ns[1].time > 20000

(* line 98 *)
NeedsStart(ns) == ns[1].time > 10000
(* line 101 with the comparison turned round *)
NeedsEndWhenLate(ns, dur) == ns[Len(ns)].time > dur - 10000

(* line 101 *)
NeedsEnd(ns, dur) == ns[Len(ns)].time < dur - 10000

(* lines 95-102 with the start note appended instead of inserted at 0 *)
CoverageStartLast(ns, dur, nl) ==
    IF ns = <<>>
    THEN <<Note(4000, 0), Note(EmptyEndTime(dur), nl - 1)>>
    ELSE LET withStart == IF NeedsStart(ns) THEN Append(ns, Note(4000, 0)) ELSE ns
         IN  IF NeedsEnd(withStart, dur)
             THEN Append(withStart, Note(EndTime(dur), nl - 1))
             ELSE withStart

(* lines 95-102 *)
Coverage(ns, dur, nl) ==
    IF ns = <<>>
    THEN <<Note(4000, 0), Note(EmptyEndTime(dur), nl - 1)>>
    ELSE LET withStart == IF NeedsStart(ns) THEN <<Note(4000, 0)>> \o ns ELSE ns
         IN  IF NeedsEnd(withStart, dur)
             THEN Append(withStart, Note(EndTime(dur), nl - 1))
             ELSE withStart

----------------------------------------------------------------------------
(* The inputs of one call *)

BeatLists ==
    {SortedSeqOf(T) : T \in {U \in SUBSET BeatTimes : Cardinality(U) <= MaxBeats}}

PeakLists ==
    UNION {
        {[i \in 1..Cardinality(T) |-> Cand(SortedSeqOf(T)[i], e[SortedSeqOf(T)[i]])] :
            e \in [T -> Energies]} :
        T \in {U \in SUBSET PeakTimes : Cardinality(U) <= MaxPeaks}}

InitGen ==
    /\ GameIdle
    /\ LoadIdle
    /\ MenuIdle
    /\ gen_pc = "load"
    /\ gen_error = "none"
    /\ duration \in Durations
    /\ difficulty \in Difficulties
    /\ lanes \in LaneCounts
    /\ beats \in BeatLists
    /\ rms_peaks \in PeakLists
    /\ \A i \in 1..Len(beats) : beats[i] < duration        \* inside the audio
    /\ \A i \in 1..Len(rms_peaks) : rms_peaks[i].time < duration
    /\ sixteenth_grid = <<>>
    /\ peaks = <<>>
    /\ all_cands = <<>>
    /\ merged = <<>>
    /\ norm = <<>>
    /\ norm_den = 1
    /\ notes = <<>>
    /\ emitted = <<>>

(* lines 15-19 *)
Load ==
    /\ UNCHANGED <<game_vars, load_vars, menu_vars>>
    /\ gen_pc = "load"
    /\ IF duration = 0
       THEN /\ gen_pc' = "done"        \* return []
            /\ notes' = <<>>
       ELSE /\ gen_pc' = "grid"
            /\ UNCHANGED notes
    /\ UNCHANGED <<gen_error, duration, difficulty, lanes, beats, rms_peaks,
                   sixteenth_grid, peaks, all_cands, merged, norm, norm_den,
                   emitted>>

(* lines 22-35 *)
BuildGrid ==
    /\ UNCHANGED <<game_vars, load_vars, menu_vars>>
    /\ gen_pc = "grid"
    /\ sixteenth_grid' = IF Len(beats) >= 2 THEN BeatGrid(beats, 1)
                         ELSE FallbackGrid(duration, difficulty)
    /\ gen_pc' = "peaks"
    /\ UNCHANGED <<gen_error, duration, difficulty, lanes, beats, rms_peaks,
                   peaks, all_cands, merged, norm, norm_den, notes, emitted>>

(* lines 44-48: peaks within 0.05 s of either end are dropped *)
EdgeFilter(ps, dur) ==
    SelectSeq(ps, LAMBDA p : 2000 < p.time /\ p.time < dur - 2000)

FindPeaks ==
    /\ UNCHANGED <<game_vars, load_vars, menu_vars>>
    /\ gen_pc = "peaks"
    /\ peaks' = EdgeFilter(rms_peaks, duration)
    /\ gen_pc' = "merge"
    /\ UNCHANGED <<gen_error, duration, difficulty, lanes, beats, rms_peaks,
                   sixteenth_grid, all_cands, merged, norm, norm_den, notes,
                   emitted>>

(* lines 51-57.  beat_times is bound only on the len(beats) >= 2 branch of *)
(* line 24, so line 52 raises UnboundLocalError for exactly one beat.      *)
BeatTimesBound(bs) == Len(bs) >= 2

Merge ==
    /\ UNCHANGED <<game_vars, load_vars, menu_vars>>
    /\ gen_pc = "merge"
    /\ IF Len(beats) > 0 /\ ~BeatTimesBound(beats)
       THEN /\ gen_error' = "UnboundLocalError"
            /\ gen_pc' = "raised"
            /\ UNCHANGED all_cands
       ELSE /\ all_cands' = [i \in 1..Len(beats) |-> Cand(beats[i], 0)] \o peaks
            /\ gen_pc' = "snap"
            /\ UNCHANGED gen_error
    /\ UNCHANGED <<duration, difficulty, lanes, beats, rms_peaks,
                   sixteenth_grid, peaks, merged, norm, norm_den, notes, emitted>>

(* lines 60-62 *)
SnapAll ==
    /\ UNCHANGED <<game_vars, load_vars, menu_vars>>
    /\ gen_pc = "snap"
    /\ all_cands' = Snap(all_cands, sixteenth_grid)
    /\ gen_pc' = "dedup"
    /\ UNCHANGED <<gen_error, duration, difficulty, lanes, beats, rms_peaks,
                   sixteenth_grid, peaks, merged, norm, norm_den, notes, emitted>>

(* lines 65-72 with the duplicates resolved in either order of all_cands,  *)
(* as a container without a fixed iteration order would                    *)
DedupSortNormaliseAnyOrder ==
    /\ UNCHANGED <<game_vars, load_vars, menu_vars>>
    /\ gen_pc = "dedup"
    /\ \E back \in BOOLEAN :
          merged' = IF back
                    THEN Dedup([i \in 1..Len(all_cands) |->
                                   all_cands[Len(all_cands) + 1 - i]])
                    ELSE Dedup(all_cands)
    /\ norm' = NormNum(merged')
    /\ norm_den' = NormDen(merged')
    /\ gen_pc' = "spacing"
    /\ UNCHANGED <<gen_error, duration, difficulty, lanes, beats, rms_peaks,
                   sixteenth_grid, peaks, all_cands, notes, emitted>>

(* lines 65-72 *)
DedupSortNormalise ==
    /\ UNCHANGED <<game_vars, load_vars, menu_vars>>
    /\ gen_pc = "dedup"
    /\ merged' = Dedup(all_cands)
    /\ norm' = NormNum(merged')
    /\ norm_den' = NormDen(merged')
    /\ gen_pc' = "spacing"
    /\ UNCHANGED <<gen_error, duration, difficulty, lanes, beats, rms_peaks,
                   sixteenth_grid, peaks, all_cands, notes, emitted>>

(* lines 75-92 *)
Spacing ==
    /\ UNCHANGED <<game_vars, load_vars, menu_vars>>
    /\ gen_pc = "spacing"
    /\ LET r == SpacingPass(merged, norm, norm_den, difficulty, lanes, Len(merged))
       IN  IF r.err
           THEN /\ gen_error' = "ZeroDivisionError"
                /\ gen_pc' = "raised"
                /\ UNCHANGED <<notes, emitted>>
           ELSE /\ notes' = r.notes
                /\ emitted' = r.notes
                /\ gen_pc' = "coverage"
                /\ UNCHANGED gen_error
    /\ UNCHANGED <<duration, difficulty, lanes, beats, rms_peaks,
                   sixteenth_grid, peaks, all_cands, merged, norm, norm_den>>

(* lines 95-104 *)
EnsureCoverage ==
    /\ UNCHANGED <<game_vars, load_vars, menu_vars>>
    /\ gen_pc = "coverage"
    /\ notes' = Coverage(notes, duration, lanes)
    /\ gen_pc' = "done"
    /\ UNCHANGED <<gen_error, duration, difficulty, lanes, beats, rms_peaks,
                   sixteenth_grid, peaks, all_cands, merged, norm, norm_den,
                   emitted>>

NextGen ==
    \/ Load
    \/ BuildGrid
    \/ FindPeaks
    \/ Merge
    \/ SnapAll
    \/ DedupSortNormalise
    \/ Spacing
    \/ EnsureCoverage

SpecGen == InitGen /\ [][NextGen]_vars

----------------------------------------------------------------------------
(* game.py *)

HIT_WINDOW == 6000                \* 0.15 s
PERFECT_WINDOW == 2000            \* 0.05 s
MISS_THRESHOLD == 8000            \* 0.20 s
BASE_NOTE_SCORE == 100
MAX_MULTIPLIER == 7
PERFECTS_PER_MULTIPLIER == 5
(* countdown_duration + 0.5 = 3.5 s (lines 303, 482) *)
CountdownTotal == 140000
(* KEYS has four entries: lanes 0..3 *)
KeyLanes == 0..3

(* 1 ms of pygame.time.get_ticks(), the / 1000.0 of lines 481-497 *)
Ms == 40

(* Bounds of the explored sessions *)
FrameStep == 50 * Ms              \* wall-clock time between two frames
MaxTailFrames == 1                \* frames followed after the chart and song end
MaxEventsPerFrame == 2            \* events handled in one frame
MaxPauses == 1                    \* pauses in one session
MaxPauseFrames == 2               \* frames a pause is followed for
LongChartLen == 31                 \* notes of the long chart
MaxLoadingFrames == 2             \* iterations of one update_loading_loop
MaxGames == 2                     \* sessions started with one chart
MaxResults == 2                   \* videos a search returns
MaxText == 2                      \* characters of the search field
(* a session on the long chart is not paused, and is followed until the    *)
(* player has deviated from the all-Perfect run (whiff, Good, miss) more   *)
(* often than this                                                         *)
MaxDeviations == 0

(* the chart generate_beatmap returns for beats at 0.3001 s and 0.4002 s   *)
(* in 0.5 s of audio (difficulty 0.16, 4 lanes, main.py line 58): the      *)
(* second beat is too close, the start note is inserted                    *)
GeneratedChart == <<Note(4000, 0), Note(12004, 0)>>
(* one note per frame: the first in lane 2, then lanes 0 and 1 in turn *)
LongChart ==
    [k \in 1..LongChartLen |->
        Note(4000 + FrameStep * k, IF k = 1 THEN 2 ELSE k % 2)]
(* two equal notes *)
TwinChart == <<Note(8000, 2), Note(8000, 2)>>

(* a session: the beatmap, song.get_length() (0 without a song) and the    *)
(* time song.play() takes at the end of the countdown (lines 486-487)      *)
Sessions ==
    {[chart |-> <<>>, len |-> 0, delay |-> 0],
     [chart |-> <<>>, len |-> 8000, delay |-> Ms],
     [chart |-> GeneratedChart, len |-> 20003, delay |-> 0],
     [chart |-> TwinChart, len |-> 0, delay |-> Ms],
     [chart |-> LongChart, len |-> 0, delay |-> 0]}

(* list.remove(x) taking out every element equal to x *)
RemoveAllEqual(ns, x) == SelectSeq(ns, LAMBDA n : n # x)

(* list.remove(x): without the first element equal to x *)
RemoveFirst(ns, x) ==
    LET i == CHOOSE k \in 1..Len(ns) :
                 ns[k] = x /\ \A j \in 1..(k - 1) : ns[j] # x
    IN  [j \in 1..(Len(ns) - 1) |-> IF j < i THEN ns[j] ELSE ns[j + 1]]

(* line 625 with MISS_THRESHOLD in place of HIT_WINDOW *)
HittableUntilMissThreshold(ns, lane, now) ==
    {i \in 1..Len(ns) :
        ns[i].lane = lane /\ Abs(ns[i].time - now) <= MISS_THRESHOLD}

(* lines 621-625: all matching notes of the lane, as indices of self.notes *)
Hittable(ns, lane, now) ==
    {i \in 1..Len(ns) : ns[i].lane = lane /\ Abs(ns[i].time - now) <= HIT_WINDOW}

(* lines 621-625 picking the note nearest to the press *)
ResolveNearest(ns, lane, now) ==
    LET h == Hittable(ns, lane, now)
    IN  IF h = {} THEN 0
        ELSE CHOOSE i \in h :
                \A k \in h :
                    \/ Abs(ns[i].time - now) < Abs(ns[k].time - now)
                    \/ Abs(ns[i].time - now) = Abs(ns[k].time - now) /\ i <= k

(* lines 621-625 without the lane test of line 622 *)
ResolveAnyLane(ns, lane, now) ==
    LET h == {i \in 1..Len(ns) : Abs(ns[i].time - now) <= HIT_WINDOW}
    IN  IF h = {} THEN 0 ELSE CHOOSE i \in h : \A k \in h : i <= k

(* lines 621-625: the index of the first note of the loop that matches,    *)
(* 0 when the loop ends without a match                                    *)
Resolve(ns, lane, now) ==
    LET h == Hittable(ns, lane, now)
    IN  IF h = {} THEN 0 ELSE CHOOSE i \in h : \A k \in h : i <= k

(* line 656 with HIT_WINDOW in place of PERFECT_WINDOW *)
IsPerfectWithinHitWindow(note, now) == Abs(note.time - now) <= HIT_WINDOW

(* line 656 *)
IsPerfect(note, now) == Abs(note.time - now) <= PERFECT_WINDOW

(* lines 429-435 without the return at MAX_MULTIPLIER *)
RegisterPerfectNoCap(m, p) ==
    IF p + 1 >= PERFECTS_PER_MULTIPLIER
    THEN [multiplier |-> IF m < MAX_MULTIPLIER THEN m + 1 ELSE m,
          perfect_hits_in_combo |-> 0]
    ELSE [multiplier |-> m, perfect_hits_in_combo |-> p + 1]

(* lines 429-435 with > in place of >= at line 433 *)
RegisterPerfectStrict(m, p) ==
    IF m >= MAX_MULTIPLIER
    THEN [multiplier |-> m, perfect_hits_in_combo |-> p]
    ELSE IF p + 1 > PERFECTS_PER_MULTIPLIER
    THEN [multiplier |-> m + 1, perfect_hits_in_combo |-> 0]
    ELSE [multiplier |-> m, perfect_hits_in_combo |-> p + 1]

(* lines 429-435 without the reset of line 434 *)
RegisterPerfectNoReset(m, p) ==
    IF m >= MAX_MULTIPLIER
    THEN [multiplier |-> m, perfect_hits_in_combo |-> p]
    ELSE IF p + 1 >= PERFECTS_PER_MULTIPLIER
    THEN [multiplier |-> m + 1, perfect_hits_in_combo |-> p + 1]
    ELSE [multiplier |-> m, perfect_hits_in_combo |-> p + 1]

(* lines 425-435: _register_perfect_hit with _increase_multiplier *)
RegisterPerfect(m, p) ==
    IF m >= MAX_MULTIPLIER
    THEN [multiplier |-> m, perfect_hits_in_combo |-> p]
    ELSE IF p + 1 >= PERFECTS_PER_MULTIPLIER
    THEN [multiplier |-> IF m < MAX_MULTIPLIER THEN m + 1 ELSE m,
          perfect_hits_in_combo |-> 0]
    ELSE [multiplier |-> m, perfect_hits_in_combo |-> p + 1]

(* lines 437-443 with the missed notes in place of the notes not missed *)
AccuracyOfMissed(total, missed) ==
    IF total <= 0 THEN [num |-> 0, den |-> 1]
    ELSE [num |-> missed * 100, den |-> total]

(* lines 437-443 *)
Accuracy(total, missed) ==
    IF total <= 0 THEN [num |-> 0, den |-> 1]
    ELSE [num |-> (total - missed) * 100, den |-> total]

(* line 677 with >= in place of > *)
IsLateInclusive(note, now) == now >= note.time + MISS_THRESHOLD

(* line 677 *)
IsLate(note, now) == now > note.time + MISS_THRESHOLD

(* lines 676-678 with no note ever removed by the sweep *)
SweepKeepsAll(ns, now) == ns

(* lines 676-678: the loop removes, for every late note of the copy, the    *)
(* first equal note of self.notes; equal notes are late together, so what  *)
(* is left are the notes that are not late, in their order                 *)
Sweep(ns, now) == SelectSeq(ns, LAMBDA n : ~IsLate(n, now))

Playing == ~countdown_active /\ ~paused /\ ~game_ended

(* slips counts up to one past the limit on the long chart; on the other   *)
(* charts it records whether there was a slip                              *)
Slip(n) ==
    Min2(n + 1, IF Len(beatmap) >= LongChartLen THEN MaxDeviations + 1 ELSE 1)

(* song time at the wall clock, not advancing in a pause *)
PlayClock ==
    (IF paused THEN pause_start_time ELSE wall) - start_time_ms - total_pause_time

(* the song time up to which a session is followed *)
SessionEnd ==
    LET last == IF beatmap = <<>> THEN 0
                ELSE beatmap[Len(beatmap)].time + MISS_THRESHOLD
    IN  Max2(last, song_len) + MaxTailFrames * FrameStep

Deviations == slips + missed_notes
IsLong == Len(beatmap) >= LongChartLen
Followed == ~IsLong \/ Deviations <= MaxDeviations

GenIdle ==
    /\ gen_pc = "idle"
    /\ gen_error = "none"
    /\ duration = 0
    /\ difficulty = 6400
    /\ lanes = 4
    /\ beats = <<>>
    /\ rms_peaks = <<>>
    /\ sixteenth_grid = <<>>
    /\ peaks = <<>>
    /\ all_cands = <<>>
    /\ merged = <<>>
    /\ norm = <<>>
    /\ norm_den = 1
    /\ notes = <<>>
    /\ emitted = <<>>

InitGame ==
    /\ GenIdle
    /\ LoadIdle
    /\ MenuIdle
    /\ game_pc = "frame"
    /\ \E s \in Sessions : Construct(s.chart, s.len, 0, s.delay)

(* lines 481-482 without the extra 0.5 s *)
CountdownOverAfterThreeSeconds(ticks, started) == ticks - started >= 120000

(* lines 481-482: countdown_elapsed >= self.countdown_duration + 0.5 *)
CountdownOver(ticks, started) == ticks - started >= CountdownTotal

(* line 507 without the test for remaining notes *)
EndReachedAtSongEnd(ns, now, len) == now >= len

(* line 507 with current_time > song_len *)
EndReachedAfterSongEnd(ns, now, len) == Len(ns) = 0 /\ now > len

(* lines 506-507: all notes gone and the song finished *)
EndReached(ns, now, len) == Len(ns) = 0 /\ now >= len

(* lines 477-511: the top of one iteration of the loop *)
FrameStart ==
    /\ game_pc = "frame"
    /\ countdown_active \/ PlayClock <= SessionEnd
    /\ Followed
    /\ paused => current_ticks - pause_start_time < MaxPauseFrames * FrameStep
    /\ LET d == play_delay
            ticks == wall + FrameStep
            finishing == countdown_active
                         /\ CountdownOver(ticks, countdown_start_time)
            start == IF finishing THEN ticks + d ELSE start_time_ms
            now == IF countdown_active
                   THEN (IF finishing THEN 0 ELSE -40000)
                   ELSE IF paused
                   THEN (pause_start_time - start_time_ms) + latency_offset
                            - total_pause_time
                   ELSE (ticks - start_time_ms) + latency_offset
                            - total_pause_time
            counting == countdown_active /\ ~finishing
        IN  /\ current_ticks' = ticks
            /\ wall' = IF finishing THEN ticks + d ELSE ticks
            /\ countdown_active' = counting
            /\ start_time_ms' = start
            /\ current_time' = now
            /\ game_ended' =
                  IF ~counting /\ ~paused /\ ~game_ended
                     /\ EndReached(self_notes, now, song_len)
                  THEN TRUE ELSE game_ended
    /\ n_events' = 0
    /\ judged' = NoJudgement
    /\ game_pc' = "events"
    /\ UNCHANGED <<beatmap, song_len, play_delay, latency_offset, self_notes,
                   total_note_count, score, combo, max_combo, multiplier,
                   perfect_hits_in_combo, missed_notes, accuracy,
                   countdown_start_time, paused, pause_start_time,
                   total_pause_time, end_screen_action, running, n_pauses,
                   slips>>
    /\ UNCHANGED <<gen_vars, load_vars, menu_vars>>

(* the events of one frame that are followed: on the long chart no more   *)
(* than two                                                               *)
EventsFollowed == IF IsLong THEN Min2(2, MaxEventsPerFrame) ELSE MaxEventsPerFrame

TakeEvent ==
    /\ game_pc = "events"
    /\ n_events < EventsFollowed
    /\ n_events' = n_events + 1
    /\ UNCHANGED <<game_pc, wall, beatmap, song_len, play_delay, latency_offset,
                   total_note_count, countdown_active, countdown_start_time,
                   start_time_ms, game_ended, current_ticks, current_time>>
    /\ UNCHANGED <<gen_vars, load_vars, menu_vars>>

ScoreUnchanged ==
    UNCHANGED <<self_notes, score, combo, max_combo, multiplier,
                perfect_hits_in_combo, missed_notes, accuracy, slips>>

PauseUnchanged ==
    UNCHANGED <<paused, pause_start_time, total_pause_time, n_pauses>>

(* lines 519-521 *)
OnQuit ==
    /\ TakeEvent
    /\ end_screen_action' = "quit"
    /\ running' = FALSE
    /\ judged' = NoJudgement
    /\ ScoreUnchanged /\ PauseUnchanged

(* lines 528-530 and 573-575 *)
Resume ==
    /\ total_pause_time' = total_pause_time + (current_ticks - pause_start_time)
    /\ paused' = FALSE
    /\ UNCHANGED <<pause_start_time, n_pauses>>

(* line 525 without the test of countdown_active *)
EscapeTogglesInCountdown == ~game_ended

(* line 525: ESC toggles the pause *)
EscapeToggles == ~countdown_active /\ ~game_ended

(* lines 523-539 and 554-560, event.key == pygame.K_ESCAPE *)
OnEscape ==
    /\ TakeEvent
    /\ judged' = NoJudgement
    /\ ScoreUnchanged
    /\ IF EscapeToggles
       THEN /\ IF paused
               THEN Resume
               ELSE /\ n_pauses < MaxPauses /\ ~IsLong
                    /\ paused' = TRUE
                    /\ pause_start_time' = current_ticks
                    /\ n_pauses' = n_pauses + 1
                    /\ UNCHANGED total_pause_time
            /\ UNCHANGED <<end_screen_action, running>>
       ELSE /\ PauseUnchanged
            /\ IF game_ended       \* paused is false here
               THEN /\ end_screen_action' = "menu"
                    /\ running' = FALSE
               ELSE UNCHANGED <<end_screen_action, running>>

(* lines 542-546, event.key == pygame.K_m *)
OnKeyM ==
    /\ TakeEvent
    /\ judged' = NoJudgement
    /\ ScoreUnchanged /\ PauseUnchanged
    /\ IF paused
       THEN /\ end_screen_action' = "menu"
            /\ running' = FALSE
       ELSE UNCHANGED <<end_screen_action, running>>

(* lines 554-560, event.key == pygame.K_r or pygame.K_q *)
OnEndKey ==
    /\ TakeEvent
    /\ judged' = NoJudgement
    /\ ScoreUnchanged /\ PauseUnchanged
    /\ \E key \in {"r", "q"} :
          IF ~paused /\ game_ended
          THEN /\ end_screen_action' = IF key = "r" THEN "retry" ELSE "menu"
               /\ running' = FALSE
          ELSE /\ key = "r"
               /\ UNCHANGED <<end_screen_action, running>>

(* lines 648-650 without the update *)
MaxComboKept(c, mc) == mc

(* lines 648-650: max_combo after the combo has become c *)
MaxComboAfter(c, mc) == IF c > mc THEN c ELSE mc

(* check_hit in a frame whose miss sweep ran before the events: a press    *)
(* while a late note is active is scored with the reset multiplier         *)
CheckHitAfterSweep(lane, now) ==
    LET i == Resolve(self_notes, lane, now)
        swept == \E k \in 1..Len(self_notes) : IsLate(self_notes[k], now)
        m == IF swept THEN 1 ELSE multiplier
        p == IF swept THEN 0 ELSE perfect_hits_in_combo
    IN  IF i # 0
        THEN LET note == self_notes[i]
                 reg == IF IsPerfect(note, now)
                        THEN RegisterPerfect(m, p)
                        ELSE [multiplier |-> m, perfect_hits_in_combo |-> p]
             IN  /\ self_notes' = RemoveFirst(self_notes, note)
                 /\ combo' = combo + 1
                 /\ max_combo' = MaxComboAfter(combo + 1, max_combo)
                 /\ score' = score + BASE_NOTE_SCORE * m
                 /\ multiplier' = reg.multiplier
                 /\ perfect_hits_in_combo' = reg.perfect_hits_in_combo
                 /\ slips' = IF IsPerfect(note, now) THEN slips ELSE Slip(slips)
                 /\ judged' = [key |-> TRUE, called |-> TRUE, lane |-> lane,
                               now |-> now, idx |-> i, note |-> note]
        ELSE /\ combo' = 0
             /\ multiplier' = 1
             /\ perfect_hits_in_combo' = 0
             /\ slips' = Slip(slips)
             /\ judged' = [key |-> TRUE, called |-> TRUE, lane |-> lane,
                           now |-> now, idx |-> 0, note |-> Note(0, 0)]
             /\ UNCHANGED <<self_notes, score, max_combo>>

(* lines 619-672 *)
CheckHit(lane, now) ==
    LET i == Resolve(self_notes, lane, now)
    IN  IF i # 0
        THEN LET note == self_notes[i]
                 reg == IF IsPerfect(note, now)
                        THEN RegisterPerfect(multiplier, perfect_hits_in_combo)
                        ELSE [multiplier |-> multiplier,
                              perfect_hits_in_combo |-> perfect_hits_in_combo]
             IN  /\ self_notes' = RemoveFirst(self_notes, note)
                 /\ combo' = combo + 1
                 /\ max_combo' = MaxComboAfter(combo + 1, max_combo)
                 /\ score' = score + BASE_NOTE_SCORE * multiplier
                 /\ multiplier' = reg.multiplier
                 /\ perfect_hits_in_combo' = reg.perfect_hits_in_combo
                 /\ slips' = IF IsPerfect(note, now) THEN slips ELSE Slip(slips)
                 /\ judged' = [key |-> TRUE, called |-> TRUE, lane |-> lane,
                               now |-> now, idx |-> i, note |-> note]
        ELSE /\ combo' = 0
             /\ multiplier' = 1
             /\ perfect_hits_in_combo' = 0
             /\ slips' = Slip(slips)
             /\ judged' = [key |-> TRUE, called |-> TRUE, lane |-> lane,
                           now |-> now, idx |-> 0, note |-> Note(0, 0)]
             /\ UNCHANGED <<self_notes, score, max_combo>>

(* line 549 without the elif of line 542 before it: lane keys judged in a  *)
(* pause                                                                   *)
LaneKeysLiveInPause == ~countdown_active /\ ~game_ended

(* lines 524, 542 and 549: a lane key reaches check_hit *)
LaneKeysLive == ~countdown_active /\ ~paused /\ ~game_ended

(* lines 548-551, event.key in KEYS *)
OnLaneKey ==
    /\ TakeEvent
    /\ Followed
    /\ PauseUnchanged
    /\ UNCHANGED <<end_screen_action, running, missed_notes, accuracy>>
    /\ \E lane \in KeyLanes :
          IF LaneKeysLive
          THEN CheckHit(lane, current_time)
          ELSE /\ lane = 0
               /\ judged' = [NoJudgement EXCEPT !.key = TRUE]
               /\ UNCHANGED <<self_notes, score, combo, max_combo, multiplier,
                              perfect_hits_in_combo, slips>>

(* lines 563-594: a click on the button named by target *)
OnClick ==
    /\ TakeEvent
    /\ judged' = NoJudgement
    /\ ScoreUnchanged
    /\ \E target \in {"resume", "pause_menu", "retry", "end_menu", "none"} :
          IF paused
          THEN /\ target \in {"resume", "pause_menu", "none"}
               /\ IF target = "resume"
                  THEN Resume /\ UNCHANGED <<end_screen_action, running>>
                  ELSE /\ PauseUnchanged
                       /\ IF target = "pause_menu"
                          THEN /\ end_screen_action' = "menu"
                               /\ running' = FALSE
                          ELSE UNCHANGED <<end_screen_action, running>>
          ELSE /\ PauseUnchanged
               /\ IF game_ended /\ target \in {"retry", "end_menu"}
                  THEN /\ end_screen_action' =
                             IF target = "retry" THEN "retry" ELSE "menu"
                       /\ running' = FALSE
                  ELSE /\ target = "none"
                       /\ UNCHANGED <<end_screen_action, running>>

(* lines 596-602 and 674-683: the miss sweep, then the next iteration or   *)
(* the end of run()                                                        *)
Update ==
    /\ game_pc = "events"
    /\ IF Playing
       THEN LET left == Sweep(self_notes, current_time)
                n == Len(self_notes) - Len(left)
            IN  /\ self_notes' = left
                /\ missed_notes' = missed_notes + n
                /\ IF n > 0
                   THEN /\ combo' = 0
                        /\ multiplier' = 1
                        /\ perfect_hits_in_combo' = 0
                        /\ accuracy' = Accuracy(total_note_count, missed_notes + n)
                   ELSE UNCHANGED <<combo, multiplier, perfect_hits_in_combo,
                                    accuracy>>
       ELSE UNCHANGED <<self_notes, missed_notes, combo, multiplier,
                        perfect_hits_in_combo, accuracy>>
    /\ game_pc' = IF running THEN "frame" ELSE "exited"
    /\ judged' = NoJudgement
    /\ n_events' = 0
    /\ UNCHANGED <<wall, beatmap, song_len, play_delay, latency_offset,
                   total_note_count,
                   score, max_combo, start_time_ms, countdown_active,
                   countdown_start_time, paused, pause_start_time,
                   total_pause_time, game_ended, end_screen_action, running,
                   current_ticks, current_time, n_pauses, slips>>
    /\ UNCHANGED <<gen_vars, load_vars, menu_vars>>

NextGame ==
    \/ FrameStart
    \/ OnQuit
    \/ OnEscape
    \/ OnKeyM
    \/ OnEndKey
    \/ OnLaneKey
    \/ OnClick
    \/ Update

SpecGame == InitGame /\ [][NextGame]_vars

(* the loop of run is sequential code: an iteration that has begun handles *)
(* its finitely many events and reaches clock.tick (line 602), and the     *)
(* next iteration reads a later get_ticks (line 477)                       *)
GameFairness == WF_vars(FrameStart) /\ WF_vars(Update)

SpecGameLive == InitGame /\ [][NextGame]_vars /\ GameFairness

----------------------------------------------------------------------------
(* main.py: main(), its two background threads and the retry loop *)

(* a session whose beatmap, song length and song.play() time are as in     *)
(* Sessions: the downloaded media; chart is what generate_beatmap returns  *)
(* for its audio                                                           *)
LoadMedia == {s \in Sessions : s.chart \in {<<>>, GeneratedChart}}

(* game.py lines 242-312 and 473: the state of a new RhythmGame at the     *)
(* start of run(), as the next state                                       *)
ConstructNext(chart, len, lat, delay) ==
    /\ beatmap' = chart
    /\ song_len' = len
    /\ play_delay' = delay
    /\ latency_offset' = lat
    /\ self_notes' = chart
    /\ total_note_count' = Len(chart)
    /\ score' = 0
    /\ combo' = 0
    /\ max_combo' = 0
    /\ multiplier' = 1
    /\ perfect_hits_in_combo' = 0
    /\ missed_notes' = 0
    /\ accuracy' = [num |-> 100, den |-> 1]
    /\ start_time_ms' = 0
    /\ countdown_active' = TRUE
    /\ countdown_start_time' = 0
    /\ paused' = FALSE
    /\ pause_start_time' = 0
    /\ total_pause_time' = 0
    /\ game_ended' = FALSE
    /\ end_screen_action' = "None"
    /\ running' = TRUE
    /\ current_ticks' = 0
    /\ current_time' = 0
    /\ wall' = 0
    /\ n_events' = 0
    /\ n_pauses' = 0
    /\ slips' = 0
    /\ judged' = NoJudgement

InitLoad ==
    /\ GenIdle
    /\ GameIdle
    /\ MenuIdle
    /\ ld_pc = "menu"
    /\ dl_pc = "idle"
    /\ bm_pc = "idle"
    /\ SharedReset
    /\ bm_notes = <<>>
    /\ loading_frames = 0
    /\ n_games = 0

(* main.py lines 17-40 and 65-66: the menu returns; for a play choice with *)
(* a URL the shared variables are reset and the download thread starts     *)
MenuChoice ==
    /\ ld_pc = "menu"
    /\ \E choice \in {"quit", "play"} :
          IF choice = "quit"
          THEN /\ ld_pc' = "exit"
               /\ UNCHANGED <<dl_pc, media_info, main_beatmap, error,
                              download_complete, beatmap_complete, n_games>>
          ELSE /\ ld_pc' = "wait_download"
               /\ dl_pc' = "running"
               /\ media_info' = NoMedia
               /\ main_beatmap' = NoChart
               /\ error' = "none"
               /\ download_complete' = FALSE
               /\ beatmap_complete' = FALSE
               /\ n_games' = 0
    /\ bm_pc' = "idle"
    /\ bm_notes' = <<>>
    /\ loading_frames' = 0
    /\ UNCHANGED <<gen_vars, game_vars, menu_vars>>

(* main.py lines 42-48: download_media returns or raises *)
DownloadTask ==
    /\ dl_pc = "running" /\ ld_pc # "exit"
    /\ \E raised \in BOOLEAN :
          IF raised
          THEN error' = "download" /\ UNCHANGED media_info
          ELSE (\E m \in LoadMedia : media_info' = m) /\ UNCHANGED error
    /\ dl_pc' = "finally"
    /\ UNCHANGED <<ld_pc, bm_pc, main_beatmap, download_complete,
                   beatmap_complete, bm_notes, loading_frames, n_games>>
    /\ UNCHANGED <<gen_vars, game_vars, menu_vars>>

(* main.py lines 49-50 *)
DownloadFinally ==
    /\ dl_pc = "finally" /\ ld_pc # "exit"
    /\ download_complete' = TRUE
    /\ dl_pc' = "done"
    /\ UNCHANGED <<ld_pc, bm_pc, media_info, main_beatmap, error,
                   beatmap_complete, bm_notes, loading_frames, n_games>>
    /\ UNCHANGED <<gen_vars, game_vars, menu_vars>>

(* menu.py lines 699-715: one iteration of update_loading_loop while the   *)
(* callback is false; a QUIT event ends the program                        *)
LoadingFrame ==
    /\ \/ ld_pc = "wait_download" /\ ~download_complete
       \/ ld_pc = "wait_beatmap" /\ ~beatmap_complete
    /\ loading_frames < MaxLoadingFrames
    /\ loading_frames' = loading_frames + 1
    /\ \E quit \in BOOLEAN : ld_pc' = IF quit THEN "exit" ELSE ld_pc
    /\ UNCHANGED <<dl_pc, bm_pc, media_info, main_beatmap, error,
                   download_complete, beatmap_complete, bm_notes, n_games>>
    /\ UNCHANGED <<gen_vars, game_vars, menu_vars>>

(* menu.py line 699 with download_complete true, main.py lines 71-84 *)
AfterDownload ==
    /\ ld_pc = "wait_download" /\ download_complete
    /\ IF error # "none"
       THEN ld_pc' = "menu" /\ UNCHANGED bm_pc
       ELSE ld_pc' = "wait_beatmap" /\ bm_pc' = "started"
    /\ loading_frames' = 0
    /\ UNCHANGED <<dl_pc, media_info, main_beatmap, error, download_complete,
                   beatmap_complete, bm_notes, n_games>>
    /\ UNCHANGED <<gen_vars, game_vars, menu_vars>>

(* main.py lines 54-58: beatmap_task up to the call of generate_beatmap *)
BeatmapCheck ==
    /\ bm_pc = "started" /\ ld_pc # "exit"
    /\ IF media_info = NoMedia
       THEN error' = "beatmap" /\ bm_pc' = "finally"
       ELSE bm_pc' = "generating" /\ UNCHANGED error
    /\ bm_notes' = <<>>
    /\ UNCHANGED <<ld_pc, dl_pc, media_info, main_beatmap, download_complete,
                   beatmap_complete, loading_frames, n_games>>
    /\ UNCHANGED <<gen_vars, game_vars, menu_vars>>

(* main.py line 58 inside generate_beatmap (beatmap.py lines 75-102): the  *)
(* next note is appended to the local list, or an exception is raised and  *)
(* caught at lines 59-60                                                   *)
BeatmapGenerate ==
    /\ bm_pc = "generating" /\ ld_pc # "exit"
    /\ \E raised \in BOOLEAN :
          IF raised
          THEN /\ error' = "beatmap"
               /\ bm_pc' = "finally"
               /\ UNCHANGED bm_notes
          ELSE /\ Len(bm_notes) < Len(media_info.chart)
               /\ bm_notes' = Append(bm_notes,
                                     media_info.chart[Len(bm_notes) + 1])
               /\ UNCHANGED <<error, bm_pc>>
    /\ UNCHANGED <<ld_pc, dl_pc, media_info, main_beatmap, download_complete,
                   beatmap_complete, loading_frames, n_games>>
    /\ UNCHANGED <<gen_vars, game_vars, menu_vars>>

(* beatmap.py line 104 and main.py line 58: the finished list is returned  *)
(* and bound to beatmap                                                    *)
BeatmapReturn ==
    /\ bm_pc = "generating" /\ ld_pc # "exit"
    /\ bm_notes = media_info.chart
    /\ main_beatmap' = bm_notes
    /\ bm_pc' = "finally"
    /\ UNCHANGED <<ld_pc, dl_pc, media_info, error, download_complete,
                   beatmap_complete, bm_notes, loading_frames, n_games>>
    /\ UNCHANGED <<gen_vars, game_vars, menu_vars>>

(* beatmap_complete = True anywhere after the task has started *)
BeatmapFinallyEarly ==
    /\ bm_pc \in {"generating", "finally"} /\ ld_pc # "exit"
    /\ beatmap_complete' = TRUE
    /\ bm_pc' = IF bm_pc = "finally" THEN "done" ELSE bm_pc
    /\ UNCHANGED <<ld_pc, dl_pc, media_info, main_beatmap, error,
                   download_complete, bm_notes, loading_frames, n_games>>
    /\ UNCHANGED <<gen_vars, game_vars, menu_vars>>

(* main.py lines 61-62 *)
BeatmapFinally ==
    /\ bm_pc = "finally" /\ ld_pc # "exit"
    /\ beatmap_complete' = TRUE
    /\ bm_pc' = "done"
    /\ UNCHANGED <<ld_pc, dl_pc, media_info, main_beatmap, error,
                   download_complete, bm_notes, loading_frames, n_games>>
    /\ UNCHANGED <<gen_vars, game_vars, menu_vars>>

(* menu.py line 699 with beatmap_complete true, main.py lines 89-98 *)
AfterBeatmap ==
    /\ ld_pc = "wait_beatmap" /\ beatmap_complete
    /\ ld_pc' = IF error # "none" THEN "menu" ELSE "start_game"
    /\ loading_frames' = 0
    /\ UNCHANGED <<dl_pc, bm_pc, media_info, main_beatmap, error,
                   download_complete, beatmap_complete, bm_notes, n_games>>
    /\ UNCHANGED <<gen_vars, game_vars, menu_vars>>

(* main.py lines 101-107 and game.py lines 242-312: RhythmGame(beatmap,    *)
(* ...) and the start of run(); beatmap[:] of None raises TypeError        *)
StartGame ==
    /\ ld_pc = "start_game"
    /\ n_games < MaxGames
    /\ IF main_beatmap = NoChart
       THEN /\ ld_pc' = "crashed"
            /\ UNCHANGED <<game_vars, n_games>>
       ELSE /\ ld_pc' = "game"
            /\ game_pc' = "frame"
            /\ ConstructNext(main_beatmap, media_info.len, 0, media_info.delay)
            /\ n_games' = n_games + 1
    /\ UNCHANGED <<dl_pc, bm_pc, media_info, main_beatmap, error,
                   download_complete, beatmap_complete, bm_notes,
                   loading_frames>>
    /\ UNCHANGED <<gen_vars, menu_vars>>

(* the caller's list when run() returns, had line 277 kept the list itself *)
(* as self.notes                                                           *)
CallerChartAliased(chart, active) == active

(* game.py line 277, self.notes = beatmap[:]: the caller's list when run() *)
(* returns is untouched by the removals at lines 631 and 678               *)
CallerChart(chart, active) == chart

(* main.py lines 107-125: run() has returned end_screen_action *)
AfterGame ==
    /\ ld_pc = "game" /\ game_pc = "exited"
    /\ ld_pc' = IF end_screen_action = "retry" THEN "start_game"
                ELSE IF end_screen_action = "quit" THEN "exit"
                ELSE "menu"
    /\ main_beatmap' = CallerChart(main_beatmap, self_notes)
    /\ game_pc' = "idle"
    /\ ConstructNext(<<>>, 0, 0, 0)
    /\ UNCHANGED <<dl_pc, bm_pc, media_info, error, download_complete,
                   beatmap_complete, bm_notes, loading_frames, n_games>>
    /\ UNCHANGED <<gen_vars, menu_vars>>

NextLoad ==
    \/ MenuChoice
    \/ DownloadTask
    \/ DownloadFinally
    \/ LoadingFrame
    \/ AfterDownload
    \/ BeatmapCheck
    \/ BeatmapGenerate
    \/ BeatmapReturn
    \/ BeatmapFinally
    \/ AfterBeatmap
    \/ StartGame
    \/ AfterGame
    \/ FrameStart
    \/ OnQuit
    \/ OnEscape
    \/ OnKeyM
    \/ OnEndKey
    \/ OnLaneKey
    \/ OnClick
    \/ Update

SpecLoad == InitLoad /\ [][NextLoad]_vars

----------------------------------------------------------------------------
(* menu.py, MainMenu.run: the event loop of the menu and the search thread *)

(* the characters typed or pasted into the search field *)
Chars == {"a", " "}

(* what suggest_youtube_videos returns: a list of up to MaxResults videos *)
ResultLists == {[k \in 1..n |-> k] : n \in 0..MaxResults}

(* line 890: self.url_input_text.strip() is not empty *)
StripNonEmpty(text) == \E i \in 1..Len(text) : text[i] # " "

(* line 895: self.url_input_text[:-1] *)
DropLast(text) == IF text = <<>> THEN <<>> ELSE SubSeq(text, 1, Len(text) - 1)

(* line 1010: self.search_thread is None or not self.search_thread.is_alive() *)
NoSearchAlive == search_pc = "none"

InitMenu ==
    /\ GenIdle
    /\ GameIdle
    /\ LoadIdle
    /\ MenuConstructed
    /\ menu_pc = "events"

ThreadUnchanged == UNCHANGED <<search_pc, results>>

(* lines 860-862 *)
OnMenuQuit ==
    /\ menu_pc = "events"
    /\ menu_choice' = "quit"
    /\ menu_pc' = "returned"
    /\ UNCHANGED <<showing_instructions, showing_url_input, url_input_text,
                   search_results, selected_video_index, is_searching>>
    /\ ThreadUnchanged
    /\ UNCHANGED <<gen_vars, game_vars, load_vars>>

(* lines 865-874, event.key == pygame.K_ESCAPE *)
OnMenuEscape ==
    /\ menu_pc = "events"
    /\ IF showing_instructions
       THEN /\ showing_instructions' = FALSE
            /\ UNCHANGED <<showing_url_input, url_input_text, menu_choice, menu_pc>>
       ELSE IF showing_url_input
       THEN /\ showing_url_input' = FALSE
            /\ url_input_text' = <<>>
            /\ UNCHANGED <<showing_instructions, menu_choice, menu_pc>>
       ELSE /\ menu_choice' = "quit"
            /\ menu_pc' = "returned"
            /\ UNCHANGED <<showing_instructions, showing_url_input,
                           url_input_text>>
    /\ UNCHANGED <<search_results, selected_video_index, is_searching>>
    /\ ThreadUnchanged
    /\ UNCHANGED <<gen_vars, game_vars, load_vars>>

(* lines 880-892 and 981-993: start the selected video or flag a search.   *)
(* The test of line 880 and the index of line 882 are taken together.      *)
StartOrSearch ==
    IF selected_video_index >= 0
    THEN IF selected_video_index < Len(search_results)
         THEN /\ menu_choice' = "play"
              /\ showing_url_input' = FALSE
              /\ menu_pc' = "returned"
              /\ UNCHANGED is_searching
         ELSE /\ menu_pc' = "raised"        \* IndexError at line 882 or 983
              /\ UNCHANGED <<menu_choice, showing_url_input, is_searching>>
    ELSE /\ is_searching' = (is_searching \/ StripNonEmpty(url_input_text))
         /\ UNCHANGED <<menu_choice, showing_url_input, menu_pc>>

(* lines 878-892, K_RETURN or K_KP_ENTER on the URL screen *)
OnReturn ==
    /\ menu_pc = "events"
    /\ ~showing_instructions /\ showing_url_input
    /\ StartOrSearch
    /\ UNCHANGED <<showing_instructions, url_input_text, search_results,
                   selected_video_index>>
    /\ ThreadUnchanged
    /\ UNCHANGED <<gen_vars, game_vars, load_vars>>

(* lines 896-900, 910-914 and 929-933: the input has changed to text; the  *)
(* results are cleared, and then the selection                             *)
TextChanged(text) ==
    /\ url_input_text' = text
    /\ IF search_results # <<>>
       THEN /\ search_results' = <<>>
            /\ menu_pc' = "clear_index"
       ELSE UNCHANGED <<search_results, menu_pc>>
    /\ UNCHANGED <<showing_instructions, showing_url_input,
                   selected_video_index, is_searching, menu_choice>>
    /\ ThreadUnchanged
    /\ UNCHANGED <<gen_vars, game_vars, load_vars>>

(* lines 894-900, event.key == pygame.K_BACKSPACE *)
OnBackspace ==
    /\ menu_pc = "events"
    /\ ~showing_instructions /\ showing_url_input
    /\ TextChanged(DropLast(url_input_text))

(* lines 901-916, Ctrl+V: the stripped clipboard text is appended *)
OnPaste ==
    /\ menu_pc = "events"
    /\ ~showing_instructions /\ showing_url_input
    /\ \E pasted \in {<<>>, <<"a">>} :
          /\ Len(url_input_text) + Len(pasted) <= MaxText
          /\ TextChanged(url_input_text \o pasted)

(* lines 925-933: a character is added to the input (up to 200             *)
(* characters, line 927; here up to MaxText)                               *)
OnChar ==
    /\ menu_pc = "events"
    /\ ~showing_instructions /\ showing_url_input
    /\ Len(url_input_text) < MaxText
    /\ \E c \in Chars : TextChanged(Append(url_input_text, c))

(* lines 917-924, K_UP and K_DOWN with search results on the screen *)
OnArrow ==
    /\ menu_pc = "events"
    /\ ~showing_instructions /\ showing_url_input
    /\ search_results # <<>>
    /\ \E up \in BOOLEAN :
          selected_video_index' =
              IF up
              THEN (IF selected_video_index > 0
                    THEN selected_video_index - 1 ELSE selected_video_index)
              ELSE (IF selected_video_index < Len(search_results) - 1
                    THEN selected_video_index + 1 ELSE selected_video_index)
    /\ UNCHANGED <<menu_pc, showing_instructions, showing_url_input,
                   url_input_text, search_results, is_searching, menu_choice>>
    /\ ThreadUnchanged
    /\ UNCHANGED <<gen_vars, game_vars, load_vars>>

(* lines 176-241: what _check_button_click can return for a click *)
ButtonsAt ==
    IF showing_instructions THEN {"back"}
    ELSE IF showing_url_input THEN {"search", "cancel"}
    ELSE {"play", "howto", "quit"}

(* lines 191-203: the results that a click can select, at most five *)
Selectable ==
    IF ~showing_instructions /\ showing_url_input
    THEN 0..(Min2(5, Len(search_results)) - 1)
    ELSE {}

(* lines 961-1005, MOUSEBUTTONDOWN on a button *)
OnMenuClick ==
    /\ menu_pc = "events"
    /\ \E action \in ButtonsAt :
          CASE action = "howto" ->
                  /\ showing_instructions' = TRUE
                  /\ UNCHANGED <<menu_pc, showing_url_input, url_input_text,
                                 search_results, is_searching, menu_choice>>
            [] action = "back" ->
                  /\ showing_instructions' = FALSE
                  /\ UNCHANGED <<menu_pc, showing_url_input, url_input_text,
                                 search_results, is_searching, menu_choice>>
            [] action = "play" ->
                  /\ showing_url_input' = TRUE
                  /\ url_input_text' = <<>>
                  /\ search_results' = <<>>
                  /\ menu_pc' = "clear_index"
                  /\ UNCHANGED <<showing_instructions, is_searching, menu_choice>>
            [] action = "search" ->
                  /\ StartOrSearch
                  /\ UNCHANGED <<showing_instructions, url_input_text,
                                 search_results>>
            [] action = "cancel" ->
                  /\ showing_url_input' = FALSE
                  /\ url_input_text' = <<>>
                  /\ search_results' = <<>>
                  /\ menu_pc' = "clear_index"
                  /\ UNCHANGED <<showing_instructions, is_searching, menu_choice>>
            [] action = "quit" ->
                  /\ menu_choice' = "quit"
                  /\ menu_pc' = "returned"
                  /\ UNCHANGED <<showing_instructions, showing_url_input,
                                 url_input_text, search_results, is_searching>>
    /\ UNCHANGED selected_video_index
    /\ ThreadUnchanged
    /\ UNCHANGED <<gen_vars, game_vars, load_vars>>

(* lines 1000-1002, MOUSEBUTTONDOWN on a search result *)
OnSelectVideo ==
    /\ menu_pc = "events"
    /\ \E i \in Selectable : selected_video_index' = i
    /\ UNCHANGED <<menu_pc, showing_instructions, showing_url_input,
                   url_input_text, search_results, is_searching, menu_choice>>
    /\ ThreadUnchanged
    /\ UNCHANGED <<gen_vars, game_vars, load_vars>>

(* lines 899, 913, 932, 978 and 998: self.selected_video_index = -1, the   *)
(* statement after self.search_results = []                                *)
ClearIndex ==
    /\ menu_pc = "clear_index"
    /\ selected_video_index' = -1
    /\ menu_pc' = "events"
    /\ UNCHANGED <<showing_instructions, showing_url_input, url_input_text,
                   search_results, is_searching, menu_choice>>
    /\ ThreadUnchanged
    /\ UNCHANGED <<gen_vars, game_vars, load_vars>>

(* lines 1008-1031: after the events of a frame, the flagged search is     *)
(* started unless a search thread is alive                                 *)
StartSearch ==
    /\ menu_pc = "events"
    /\ is_searching /\ showing_url_input
    /\ NoSearchAlive
    /\ search_pc' = "fetch"
    /\ UNCHANGED <<menu_pc, showing_instructions, showing_url_input,
                   url_input_text, search_results, selected_video_index,
                   is_searching, results, menu_choice>>
    /\ UNCHANGED <<gen_vars, game_vars, load_vars>>

MainUnchanged ==
    UNCHANGED <<menu_pc, showing_instructions, showing_url_input,
                url_input_text, menu_choice>>

(* line 1016: results = suggest_youtube_videos(search_query), or the       *)
(* search raises                                                           *)
SearchFetch ==
    /\ search_pc = "fetch"
    /\ \/ \E r \in ResultLists : results' = r /\ search_pc' = "store"
       \/ results' = results /\ search_pc' = "except"
    /\ UNCHANGED <<search_results, selected_video_index, is_searching>>
    /\ MainUnchanged
    /\ UNCHANGED <<gen_vars, game_vars, load_vars>>

(* line 1018: self.search_results = results *)
SearchStore ==
    /\ search_pc = "store"
    /\ search_results' = results
    /\ search_pc' = IF results # <<>> THEN "select" ELSE "finally"
    /\ UNCHANGED <<selected_video_index, is_searching, results>>
    /\ MainUnchanged
    /\ UNCHANGED <<gen_vars, game_vars, load_vars>>

(* lines 1019-1020: if results: self.selected_video_index = 0 *)
SearchSelect ==
    /\ search_pc = "select"
    /\ selected_video_index' = 0
    /\ search_pc' = "finally"
    /\ UNCHANGED <<search_results, is_searching, results>>
    /\ MainUnchanged
    /\ UNCHANGED <<gen_vars, game_vars, load_vars>>

(* line 1024: self.search_results = [] in the except branch *)
SearchExcept ==
    /\ search_pc = "except"
    /\ search_results' = <<>>
    /\ search_pc' = "except_index"
    /\ UNCHANGED <<selected_video_index, is_searching, results>>
    /\ MainUnchanged
    /\ UNCHANGED <<gen_vars, game_vars, load_vars>>

(* line 1025: self.selected_video_index = -1 in the except branch *)
SearchExceptIndex ==
    /\ search_pc = "except_index"
    /\ selected_video_index' = -1
    /\ search_pc' = "finally"
    /\ UNCHANGED <<search_results, is_searching, results>>
    /\ MainUnchanged
    /\ UNCHANGED <<gen_vars, game_vars, load_vars>>

(* lines 1026-1027: finally: self.is_searching = False; the thread ends *)
SearchFinally ==
    /\ search_pc = "finally"
    /\ is_searching' = FALSE
    /\ search_pc' = "none"
    /\ UNCHANGED <<search_results, selected_video_index, results>>
    /\ MainUnchanged
    /\ UNCHANGED <<gen_vars, game_vars, load_vars>>

NextMenu ==
    \/ OnMenuQuit
    \/ OnMenuEscape
    \/ OnReturn
    \/ OnBackspace
    \/ OnPaste
    \/ OnChar
    \/ OnArrow
    \/ OnMenuClick
    \/ OnSelectVideo
    \/ ClearIndex
    \/ StartSearch
    \/ SearchFetch
    \/ SearchStore
    \/ SearchSelect
    \/ SearchExcept
    \/ SearchExceptIndex
    \/ SearchFinally

SpecMenu == InitMenu /\ [][NextMenu]_vars

----------------------------------------------------------------------------
(* Properties of generate_beatmap *)

Returned == gen_pc = "done"
ValidParams == difficulty > 0 /\ lanes >= 2

(* C1: for valid parameters the note times of a returned chart are         *)
(* non-decreasing, the inserted start and end notes included.              *)
C1_ChartOrdered ==
    (Returned /\ ValidParams) =>
        \A i \in 1..(Len(notes) - 1) : notes[i].time <= notes[i + 1].time

(* a chart with real notes between an inserted start and end note *)
C1_Witness ==
    /\ Returned /\ ValidParams
    /\ Len(emitted) >= 2
    /\ Len(notes) = Len(emitted) + 2

(* C2: the notes the spacing pass emitted are at least difficulty apart,   *)
(* and they are the chart's notes between the synthetic ones.              *)
C2_RealNotesSpaced ==
    (Returned /\ ValidParams /\ duration > 0) =>
        /\ \A i \in 1..(Len(emitted) - 1) :
              emitted[i + 1].time - emitted[i].time >= difficulty
        /\ emitted # <<>> =>
              \E k \in {0, 1} : SubSeq(notes, k + 1, k + Len(emitted)) = emitted

(* two real notes were emitted and a candidate between or after them was   *)
(* skipped for spacing                                                     *)
C2_Witness ==
    /\ Returned /\ ValidParams
    /\ Len(emitted) >= 2
    /\ Len(emitted) < Len(merged)

(* C3: with lanes >= 2 no two adjacent notes of a returned chart share a   *)
(* lane, the start note (lane 0) and the end note (lane lanes-1) included. *)
C3_NoLaneRepeat ==
    (Returned /\ ValidParams) =>
        \A i \in 1..(Len(notes) - 1) : notes[i].lane # notes[i + 1].lane

(* C3, restricted to the notes of the spacing pass *)
C3_RealNoLaneRepeat ==
    (Returned /\ ValidParams) =>
        \A i \in 1..(Len(emitted) - 1) : emitted[i].lane # emitted[i + 1].lane

(* C4: a chart of a non-empty input starts at or before 0.25 s and ends at *)
(* or after D - 0.25 s; the start note (0.1 s, lane 0) is there exactly    *)
(* when the first real note is later than 0.25 s and the end note          *)
(* (round(D - 0.05, 4), lane lanes-1) exactly when the last real note is   *)
(* earlier than D - 0.25 s.                                                *)
C4_Coverage ==
    (Returned /\ duration > 0) =>
        /\ notes # <<>>
        /\ notes[1].time <= 10000
        /\ notes[Len(notes)].time >= duration - 10000
        /\ emitted # <<>> =>
              LET first == emitted[1].time
                  last == emitted[Len(emitted)].time
                  pre == IF first > 10000 THEN <<Note(4000, 0)>> ELSE <<>>
                  post == IF last < duration - 10000
                          THEN <<Note(Round4(duration - 2000), lanes - 1)>>
                          ELSE <<>>
              IN  notes = pre \o emitted \o post

(* a start note was inserted and no end note appended *)
C4_Witness ==
    /\ Returned
    /\ emitted # <<>>
    /\ emitted[1].time > 10000
    /\ emitted[Len(emitted)].time >= duration - 10000
    /\ Len(notes) = Len(emitted) + 1

(* C5 as claimed: when the spacing pass emits nothing the chart is         *)
(* (0.1 s, lane 0), (round(D - 0.05, 4), lane lanes-1).                    *)
C5_EmptyChartEndsAtDMinus005 ==
    (Returned /\ ValidParams /\ duration > 0 /\ emitted = <<>>) =>
        notes = <<Note(4000, 0), Note(Round4(duration - 2000), lanes - 1)>>

(* C5 amended: when the spacing pass emits nothing the chart is            *)
(* (0.1 s, lane 0), (round(max(0.2, D - 0.05), 4), lane lanes-1); that is  *)
(* D - 0.05 for D >= 0.25 s, and (0.1, 0), (9.95, 3) for 10 s and 4 lanes. *)
C5_EmptyChart ==
    (Returned /\ ValidParams /\ duration > 0 /\ emitted = <<>>) =>
        /\ notes = <<Note(4000, 0),
                     Note(Round4(Max2(8000, duration - 2000)), lanes - 1)>>
        /\ duration >= 10000 => notes[2].time = Round4(duration - 2000)
        /\ (duration = 400000 /\ lanes = 4) =>
              notes = <<Note(4000, 0), Note(398000, 3)>>

(* nothing emitted for a buffer shorter than 0.25 s *)
C5_Witness ==
    /\ Returned /\ ValidParams /\ duration > 0 /\ duration < 10000
    /\ emitted = <<>>
    /\ Len(notes) = 2

(* C6: after deduplication every surviving event carries the highest       *)
(* energy among the candidates snapped to its time (equal energies at one  *)
(* time are equal events, so first-seen needs no separate statement).      *)
C6_DedupKeepsStrongest ==
    (ValidParams /\ gen_pc = "spacing") =>
        \A i \in 1..Len(merged) :
            merged[i].energy =
                SetMax({all_cands[k].energy :
                          k \in {j \in 1..Len(all_cands) :
                                   all_cands[j].time = merged[i].time}})

(* C8: a chart is returned only for difficulty > 0 and lanes >= 2 *)
C8_InvalidParamsRejected ==
    (Returned /\ notes # <<>>) => ValidParams

(* C9: with fewer than two detected beats and valid parameters             *)
(* generate_beatmap raises nothing                                         *)
C9_FewBeatsNeverRaise ==
    (ValidParams /\ Len(beats) < 2) => gen_error = "none"

(* ---------------------------------------------------------------------- *)
(* Properties of the judgment engine (SpecGame)                            *)
(* ---------------------------------------------------------------------- *)

(* the step is a check_hit call that resolved a note *)
HitStep == judged'.called /\ judged'.idx > 0

(* the step is a check_hit call whose resolved note is within              *)
(* PERFECT_WINDOW of the press                                             *)
PerfectHitStep == HitStep /\ IsPerfect(judged'.note, judged'.now)

(* C7: a key press resolves the note nearest to the press time: of the     *)
(* notes of the pressed lane within HIT_WINDOW, check_hit removes the one  *)
(* with the smallest |note.time - now|.                                    *)
C7_NearestNoteResolved ==
    [][HitStep =>
          /\ judged'.idx = ResolveNearest(self_notes, judged'.lane, judged'.now)
          /\ self_notes' = RemoveFirst(self_notes,
                 self_notes[ResolveNearest(self_notes, judged'.lane,
                                           judged'.now)])]_vars

(* what a Perfect hit does to the notes, score and combo *)
PerfectHitCommon ==
    /\ judged'.note = self_notes[judged'.idx]
    /\ judged'.note.lane = judged'.lane
    /\ self_notes' = RemoveFirst(self_notes, judged'.note)
    /\ Len(self_notes') = Len(self_notes) - 1
    /\ score' = score + 100 * multiplier
    /\ combo' = combo + 1
    /\ max_combo' = Max2(max_combo, combo')

(* C10 as claimed: a Perfect hit removes the resolved note, adds           *)
(* 100 * (multiplier before the hit) to the score, adds one to the combo,  *)
(* raises maxCombo to it, and advances the perfect streak by one.          *)
C10_PerfectHitAdvancesStreak ==
    [][PerfectHitStep =>
          /\ PerfectHitCommon
          /\ perfect_hits_in_combo' = perfect_hits_in_combo + 1]_vars

(* C10 amended: a Perfect hit removes the resolved note, adds              *)
(* 100 * (multiplier before the hit) to the score, adds one to the combo   *)
(* and raises maxCombo to it; below multiplier 7 the streak advances by    *)
(* one, the fifth Perfect of a streak resetting it to 0 and raising the    *)
(* multiplier by one; at multiplier 7 streak and multiplier stay as they   *)
(* are.                                                                    *)
C10_PerfectHit ==
    [][PerfectHitStep =>
          /\ PerfectHitCommon
          /\ IF multiplier >= 7
             THEN /\ perfect_hits_in_combo' = perfect_hits_in_combo
                  /\ multiplier' = multiplier
             ELSE IF perfect_hits_in_combo + 1 >= 5
             THEN /\ perfect_hits_in_combo' = 0
                  /\ multiplier' = multiplier + 1
             ELSE /\ perfect_hits_in_combo' = perfect_hits_in_combo + 1
                  /\ multiplier' = multiplier]_vars

(* a Perfect hit landed while the multiplier was already 7 *)
C10_Witness ==
    /\ judged.called /\ judged.idx > 0
    /\ IsPerfect(judged.note, judged.now)
    /\ multiplier = 7
    /\ combo > 30
    /\ score = 100 * (5 * (1 + 2 + 3 + 4 + 5 + 6) + 7 * (combo - 30))

(* the chart the judged sessions play is a chart generate_beatmap returns *)
GeneratedChartReturned ==
    /\ Returned /\ difficulty = 6400 /\ lanes = 4
    /\ duration = 20003 /\ beats = <<12004, 16008>> /\ rms_peaks = <<>>
    /\ notes = GeneratedChart

(* the step is the miss sweep of a frame of active play (lines 596-598) *)
SweepStep == game_pc = "events" /\ game_pc' # "events" /\ Playing

(* C11: the miss sweep removes exactly the active notes with               *)
(* now > note.time + MISS_THRESHOLD; missedCount grows by the number of    *)
(* notes removed; if a note was removed, combo = 0, multiplier = 1 and     *)
(* streak = 0 afterwards; if none was, the score state is unchanged; score *)
(* and maxCombo never change.                                              *)
C11_MissSweep ==
    [][SweepStep =>
          LET late(n) == current_time > n.time + 8000
              removed == Len(self_notes) - Len(self_notes')
          IN  /\ self_notes' = SelectSeq(self_notes, LAMBDA n : ~late(n))
              /\ missed_notes' = missed_notes + removed
              /\ score' = score /\ max_combo' = max_combo
              /\ IF removed > 0
                 THEN combo' = 0 /\ multiplier' = 1 /\ perfect_hits_in_combo' = 0
                 ELSE UNCHANGED <<combo, multiplier, perfect_hits_in_combo,
                                  missed_notes, accuracy>>]_vars

(* a sweep removed the second note of the generated chart after a Perfect  *)
(* hit on the first: combo 1 fell to 0 without any whiff                   *)
C11_Witness ==
    /\ game_pc = "frame"
    /\ beatmap = GeneratedChart
    /\ missed_notes = 1 /\ self_notes = <<>>
    /\ score = 100 /\ max_combo = 1 /\ slips = 0
    /\ combo = 0 /\ multiplier = 1 /\ perfect_hits_in_combo = 0

(* the step is a check_hit call in a lane that has no active note within   *)
(* HIT_WINDOW of the press                                                 *)
WhiffStep ==
    /\ judged'.called
    /\ \A i \in 1..Len(self_notes) :
          self_notes[i].lane = judged'.lane =>
              Abs(self_notes[i].time - judged'.now) > 6000

(* C12: a whiff sets combo = 0, multiplier = 1 and streak = 0 and leaves   *)
(* the active notes, score, maxCombo, missedCount and accuracy unchanged.  *)
C12_Whiff ==
    [][WhiffStep =>
          /\ combo' = 0 /\ multiplier' = 1 /\ perfect_hits_in_combo' = 0
          /\ UNCHANGED <<self_notes, score, max_combo, missed_notes,
                         accuracy>>]_vars

(* the first deviation from an all-Perfect run of at least five notes is a *)
(* whiff: the multiplier it reset was above 1                              *)
C12_Witness ==
    /\ judged.called /\ judged.idx = 0
    /\ IsLong /\ slips = 1 /\ missed_notes = 0
    /\ max_combo >= 5 /\ score >= 500
    /\ combo = 0 /\ multiplier = 1 /\ perfect_hits_in_combo = 0
    /\ self_notes # <<>>

(* the Perfect hits since multiplier 1 and streak 0, while fewer than 30 *)
PerfectsSinceReset == 5 * (multiplier - 1) + perfect_hits_in_combo

(* C13: from multiplier 1 and streak 0, k consecutive Perfect hits with no *)
(* miss or whiff between them give multiplier min(7, 1 + floor(k / 5)):    *)
(* in a session of Perfect hits only, k is the combo; and every Perfect    *)
(* hit takes the multiplier from the value for k to the value for k + 1.   *)
C13_MultiplierProgression ==
    /\ []((slips = 0 /\ missed_notes = 0) =>
             multiplier = Min2(7, 1 + combo \div 5))
    /\ [][PerfectHitStep =>
             /\ multiplier = Min2(7, 1 + PerfectsSinceReset \div 5)
             /\ multiplier' = Min2(7, 1 + (PerfectsSinceReset + 1) \div 5)]_vars

(* 31 Perfect hits in a row: the multiplier reached 7 at the 30th and the  *)
(* 31st left it there                                                      *)
C13_Witness ==
    /\ slips = 0 /\ missed_notes = 0
    /\ combo = 31 /\ max_combo = 31
    /\ multiplier = 7

(* C14: in every reachable state of a session 1 <= multiplier <= 7 and     *)
(* 0 <= perfect streak < 5.                                                *)
C14_MultiplierAndStreakInRange ==
    /\ 1 <= multiplier /\ multiplier <= 7
    /\ 0 <= perfect_hits_in_combo /\ perfect_hits_in_combo < 5

(* one Perfect hit short of the last multiplier step *)
C14_Witness ==
    /\ multiplier = 6 /\ perfect_hits_in_combo = 4
    /\ combo = 29

(* the step is a check_hit call whose resolved note is more than 0.05 s    *)
(* and at most 0.15 s from the press                                       *)
GoodHitStep ==
    /\ HitStep
    /\ Abs(judged'.note.time - judged'.now) > 2000
    /\ Abs(judged'.note.time - judged'.now) <= 6000

(* C15: a Good hit removes the note, adds 100 * multiplier to the score    *)
(* and one to the combo, and leaves the perfect streak and the multiplier  *)
(* as they were.                                                           *)
C15_GoodHit ==
    [][GoodHitStep =>
          /\ judged'.note = self_notes[judged'.idx]
          /\ self_notes' = RemoveFirst(self_notes, judged'.note)
          /\ score' = score + 100 * multiplier
          /\ combo' = combo + 1
          /\ UNCHANGED <<perfect_hits_in_combo, multiplier>>]_vars

(* a Good hit after seven Perfect hits: the streak of 2 at multiplier 2    *)
(* is still there                                                          *)
C15_Witness ==
    /\ judged.called /\ judged.idx > 0
    /\ ~IsPerfect(judged.note, judged.now)
    /\ missed_notes = 0 /\ combo = 8 /\ max_combo = 8
    /\ multiplier = 2 /\ perfect_hits_in_combo = 2
    /\ score = 5 * 100 + 3 * 200

(* the steps that enter and leave the pause (ESC, or the Resume button) *)
PauseStep == ~paused /\ paused'
ResumeStep == paused /\ ~paused'

(* the frame that ended the countdown: its tick (line 477) was read before *)
(* the start tick was latched (line 487)                                   *)
TransitionFrame == ~countdown_active /\ current_ticks <= start_time_ms

(* the song time of a paused session *)
FrozenTime ==
    (pause_start_time - start_time_ms) + latency_offset - total_pause_time

(* C16: the song time at the resume tick, computed right after the resume, *)
(* equals the song time computed right before the pause: the pause freezes *)
(* the song time the pausing frame computed, and the resume continues from *)
(* the frozen value.                                                       *)
C16_PauseInvariance ==
    [][/\ PauseStep => FrozenTime' = current_time
       /\ ResumeStep =>
             (current_ticks - start_time_ms) + latency_offset
                 - total_pause_time' = FrozenTime]_vars

(* C16 for the pauses that begin after the frame that ended the countdown *)
C16_PauseInvarianceAfterFirstFrame ==
    [][/\ (PauseStep /\ ~TransitionFrame) => FrozenTime' = current_time
       /\ ResumeStep =>
             (current_ticks - start_time_ms) + latency_offset
                 - total_pause_time' = FrozenTime]_vars

(* C17: in the Playing phase songTime = (nowTick - sessionStartTick)       *)
(* + latencyOffset - P, where a resume adds nowTick - pauseStartTick to P  *)
(* and nothing else changes P.                                             *)
C17_SongTimeFormula ==
    /\ [](Playing =>
             current_time = (current_ticks - start_time_ms) + latency_offset
                                - total_pause_time)
    /\ [][IF ResumeStep
          THEN total_pause_time' =
                   total_pause_time + (current_ticks - pause_start_time)
          ELSE total_pause_time' = total_pause_time]_vars

(* C17 for the frames after the one that ended the countdown *)
C17_SongTimeFormulaAfterFirstFrame ==
    /\ []((Playing /\ ~TransitionFrame) =>
             current_time = (current_ticks - start_time_ms) + latency_offset
                                - total_pause_time)
    /\ [][IF ResumeStep
          THEN total_pause_time' =
                   total_pause_time + (current_ticks - pause_start_time)
          ELSE total_pause_time' = total_pause_time]_vars

(* C18: while the session is paused every frame computes the same song     *)
(* time, the one of the frame in which the pause began, whatever the tick; *)
(* no miss sweep runs and no note is removed while paused.                 *)
C18_PausedTimeFrozen ==
    /\ [](paused => current_time = FrozenTime)
    /\ [][paused => UNCHANGED <<self_notes, missed_notes, accuracy, combo,
                                multiplier, perfect_hits_in_combo,
                                score>>]_vars

(* C18 for the pauses that begin after the frame that ended the countdown *)
C18_PausedTimeFrozenAfterFirstFrame ==
    /\ []((paused /\ pause_start_time > start_time_ms) =>
             current_time = FrozenTime)
    /\ [][paused => UNCHANGED <<self_notes, missed_notes, accuracy, combo,
                                multiplier, perfect_hits_in_combo,
                                score>>]_vars

(* the step in which the session becomes Ended *)
EndStep == ~game_ended /\ game_ended'

(* C19: the session becomes Ended only in a frame that finds no active     *)
(* note and songTime >= songLength, outside countdown and pause; from then *)
(* on game_ended stays true and score, combo, multiplier, missedCount and  *)
(* the notes never change.                                                 *)
C19_EndedTerminal ==
    [][/\ EndStep =>
             /\ self_notes' = <<>> /\ self_notes = <<>>
             /\ current_time' >= song_len
             /\ ~countdown_active' /\ ~paused /\ ~paused'
             /\ game_pc = "frame"
       /\ game_ended =>
             /\ game_ended'
             /\ UNCHANGED <<score, combo, multiplier, missed_notes,
                            self_notes, max_combo, perfect_hits_in_combo,
                            accuracy>>]_vars

(* the end screen of a session that hit both notes of the generated chart  *)
(* has handled two events and is still running                             *)
C19_Witness ==
    /\ game_ended /\ running
    /\ beatmap = GeneratedChart /\ self_notes = <<>>
    /\ combo = 2 /\ score = 200
    /\ game_pc = "events" /\ n_events = 2

(* the step from Countdown to Playing *)
TransitionStep == countdown_active /\ ~countdown_active'

(* C20: the transition from Countdown to Playing fires once, in the first  *)
(* frame whose tick is at least 3.5 s after the start of the countdown;    *)
(* the session start tick is written at the transition and at no other     *)
(* step, and countdown_active never becomes true again.                     *)
C20_CountdownLatch ==
    [][/\ TransitionStep =>
             /\ current_ticks' - countdown_start_time >= 140000
             /\ current_ticks - countdown_start_time < 140000
             /\ start_time_ms' = current_ticks' + play_delay
             /\ start_time_ms' = wall'
       /\ ~TransitionStep => start_time_ms' = start_time_ms
       /\ ~countdown_active => ~countdown_active'
       /\ (countdown_active /\ countdown_active') =>
             current_ticks' - countdown_start_time < 140000
       /\ countdown_start_time' = countdown_start_time]_vars

(* a session in play after a completed pause: the start tick is still the  *)
(* one latched when the countdown ended, after song.play() took 1 ms       *)
C20_Witness ==
    /\ ~countdown_active /\ ~paused
    /\ start_time_ms = 140000 + Ms
    /\ total_pause_time > 0
    /\ current_ticks > start_time_ms + FrameStep
    /\ game_pc = "events"

(* C21: in a session with totalNoteCount > 0, accuracy is                  *)
(* (totalNoteCount - missedCount) / totalNoteCount * 100 at every point,   *)
(* with 0 <= missedCount <= totalNoteCount and so 0 <= accuracy <= 100;    *)
(* a hit or a whiff does not change it.                                    *)
C21_Accuracy ==
    /\ [](total_note_count > 0 =>
             /\ accuracy.den > 0
             /\ accuracy.num * total_note_count =
                    (total_note_count - missed_notes) * 100 * accuracy.den
             /\ 0 <= missed_notes /\ missed_notes <= total_note_count
             /\ 0 <= accuracy.num /\ accuracy.num <= 100 * accuracy.den)
    /\ [][judged'.called => accuracy' = accuracy]_vars

(* a hit on the second note of the generated chart after the first was     *)
(* missed: accuracy is still 50                                            *)
C21_Witness ==
    /\ judged.called /\ judged.idx > 0
    /\ total_note_count = 2 /\ missed_notes = 1
    /\ accuracy.num = 50 * accuracy.den
    /\ score = 100 /\ self_notes = <<>>

(* s[i..] can be got from t[j..] by leaving elements out *)
RECURSIVE SubSeqFrom(_, _, _, _)
SubSeqFrom(s, i, t, j) ==
    IF i > Len(s) THEN TRUE
    ELSE IF Len(s) - i > Len(t) - j THEN FALSE
    ELSE IF s[i] = t[j] THEN SubSeqFrom(s, i + 1, t, j + 1)
    ELSE SubSeqFrom(s, i, t, j + 1)

(* s is t with some elements left out, the order kept *)
LeftOf(s, t) == s = t \/ SubSeqFrom(s, 1, t, 1)

(* C22: removal is the only change of the active notes and every note is   *)
(* resolved at most once: a hit removes exactly one note and counts no     *)
(* miss, every other step counts exactly as many misses as it removes      *)
(* notes, no step adds a note or changes totalNoteCount; so hits +         *)
(* missedCount + active notes = totalNoteCount, also for a chart with two  *)
(* notes of the same time and lane.                                        *)
C22_NotesResolvedOnce ==
    /\ [](/\ total_note_count = Len(beatmap)
          /\ Len(self_notes) + missed_notes <= total_note_count)
    /\ [][/\ total_note_count' = total_note_count
          /\ LeftOf(self_notes', self_notes)
          /\ IF HitStep
             THEN /\ Len(self_notes') = Len(self_notes) - 1
                  /\ missed_notes' = missed_notes
             ELSE missed_notes' - missed_notes =
                      Len(self_notes) - Len(self_notes')]_vars

(* of two notes of the same time and lane one was hit and then the other   *)
(* was missed                                                              *)
C22_Witness ==
    /\ beatmap = TwinChart
    /\ self_notes = <<>>
    /\ missed_notes = 1 /\ score = 100 /\ max_combo = 1

(* a late note is still active *)
SweepPending ==
    \E k \in 1..Len(self_notes) : self_notes[k].time + 8000 < current_time

(* C23: a frame has one songTime, taken at its start: every hit check of   *)
(* the frame and then its miss sweep use it; misses are recorded only by   *)
(* the step that ends the frame's events, after every key press of the     *)
(* frame; so a hit in a frame where another note times out is scored with  *)
(* the multiplier before the sweep, leaves the late note to the sweep, and *)
(* the frame ends with combo = 0 and multiplier = 1.                       *)
C23_FrameOrder ==
    [][/\ game_pc = "events" => current_time' = current_time
       /\ judged'.called =>
             /\ game_pc = "events" /\ game_pc' = "events"
             /\ judged'.now = current_time
       /\ game_pc' = "events" =>
             /\ missed_notes' = missed_notes
             /\ self_notes' # self_notes => HitStep
       /\ HitStep =>
             /\ score' = score + 100 * multiplier
             /\ combo' = combo + 1
             /\ SweepPending => SweepPending'
       /\ SweepStep =>
             /\ self_notes' = SelectSeq(self_notes,
                                  LAMBDA n : ~(current_time > n.time + 8000))
             /\ score' = score
             /\ SweepPending => combo' = 0 /\ multiplier' = 1]_vars

(* the end of the frame at song time 0.4 s of the long chart: the first    *)
(* note was never pressed and timed out in this frame, five Perfect hits   *)
(* came before the frame and the sixth, in this frame, scored 200          *)
C23_Witness ==
    /\ IsLong /\ game_pc = "frame" /\ current_time = 16000
    /\ score = 700 /\ max_combo = 6 /\ slips = 0
    /\ missed_notes = 1 /\ combo = 0 /\ multiplier = 1

(* C24: a session with an empty chart records no hit and no miss (score,   *)
(* combo, maxCombo and missedCount stay 0, accuracy stays 100) and becomes *)
(* Ended in the first frame after the countdown that starts unpaused with  *)
(* songTime >= songLength, and in no earlier frame.                        *)
C24_EmptyChartSession ==
    /\ [](beatmap = <<>> /\ game_pc # "idle" =>
             /\ self_notes = <<>> /\ total_note_count = 0
             /\ score = 0 /\ combo = 0 /\ max_combo = 0 /\ missed_notes = 0
             /\ multiplier = 1 /\ perfect_hits_in_combo = 0
             /\ accuracy.num = 100 * accuracy.den)
    /\ [][beatmap = <<>> /\ game_pc = "frame" /\ game_pc' = "events" =>
             game_ended' = \/ game_ended
                           \/ /\ ~countdown_active' /\ ~paused
                              /\ current_time' >= song_len]_vars

(* the session with no note and a song of 0.2 s was paused and resumed and *)
(* has ended in its first frame from song time 0.2 s on, after lane keys   *)
(* were pressed                                                            *)
C24_Witness ==
    /\ beatmap = <<>> /\ song_len = 8000
    /\ game_ended /\ total_pause_time > 0 /\ slips > 0
    /\ current_time >= song_len /\ current_time < song_len + FrameStep
    /\ score = 0 /\ missed_notes = 0

----------------------------------------------------------------------------
(* Properties of main() *)

(* C25: under every interleaving of the download and beatmap threads with  *)
(* the loading loop, a RhythmGame exists only when the beatmap thread has  *)
(* set beatmap_complete with no error recorded, and its chart is the whole *)
(* list generate_beatmap returned; after a raised download or generation   *)
(* no game exists and the loading loop is left for the menu.               *)
C25_HandoffAfterCompletion ==
    /\ [](/\ ld_pc # "crashed"
          /\ (ld_pc \in {"start_game", "game"} \/ game_pc # "idle") =>
                /\ download_complete /\ beatmap_complete
                /\ dl_pc = "done" /\ bm_pc = "done"
                /\ error = "none"
                /\ media_info # NoMedia
                /\ main_beatmap = media_info.chart
                /\ bm_notes = media_info.chart
          /\ game_pc # "idle" => beatmap = media_info.chart
          /\ error # "none" =>
                /\ game_pc = "idle"
                /\ ld_pc \in {"wait_download", "wait_beatmap", "menu", "exit"})
    /\ [][(error # "none" /\ ld_pc' # ld_pc /\ ld_pc' # "exit") =>
             ld_pc' \in {"menu", "wait_download"}]_vars

(* after the handoff the session on the generated chart is playing and has *)
(* removed one of its two notes                                            *)
C25_Witness ==
    /\ ld_pc = "game" /\ game_pc = "events"
    /\ beatmap = GeneratedChart
    /\ n_games = 1 /\ ~countdown_active
    /\ Len(self_notes) = 1

(* C26: a session works on its own copy of the chart: the caller's chart   *)
(* changes only when generate_beatmap returns and when a new play choice   *)
(* resets it, never by a hit or a miss; every session, also one started by *)
(* a retry, starts with the whole chart as its active notes and with score,*)
(* combo, maxCombo, multiplier, perfect streak and missedCount at their    *)
(* initial values.                                                         *)
C26_ChartImmutable ==
    /\ [](ld_pc = "game" =>
             /\ main_beatmap = media_info.chart
             /\ game_pc # "idle" => /\ beatmap = main_beatmap
                                    /\ LeftOf(self_notes, main_beatmap))
    /\ [][/\ main_beatmap' # main_beatmap =>
                \/ ld_pc = "menu"
                \/ bm_pc = "generating" /\ bm_pc' = "finally"
          /\ (ld_pc = "start_game" /\ ld_pc' = "game") =>
                /\ self_notes' = media_info.chart
                /\ total_note_count' = Len(media_info.chart)
                /\ score' = 0 /\ combo' = 0 /\ max_combo' = 0
                /\ multiplier' = 1 /\ perfect_hits_in_combo' = 0
                /\ missed_notes' = 0
                /\ accuracy'.num = 100 * accuracy'.den
                /\ countdown_active' /\ ~paused' /\ ~game_ended']_vars

(* the second session on the generated chart, started by a retry after the *)
(* first had removed both notes, has the two notes again                   *)
C26_Witness ==
    /\ ld_pc = "game" /\ n_games = 2
    /\ game_pc = "frame" /\ current_ticks = 0
    /\ main_beatmap = GeneratedChart
    /\ self_notes = GeneratedChart
    /\ score = 0 /\ missed_notes = 0

----------------------------------------------------------------------------
(* Further properties of generate_beatmap *)

(* C27: with at least one lane, every note of a returned chart, real or    *)
(* inserted for coverage, has a lane in 0..lanes-1: line 84 clamps the     *)
(* lane lanes that intensity 1 maps to, and the rotation of line 88 wraps  *)
(* lanes-1 to 0; the lane computed for any intensity between 0 and 1 lies  *)
(* in the range as well.  (lanes = 0 is the unrejected input of C8.)       *)
C27_LaneInRange ==
    /\ (Returned /\ lanes >= 1) =>
          /\ \A i \in 1..Len(notes) : notes[i].lane \in 0..(lanes - 1)
          /\ \A i \in 1..Len(emitted) : emitted[i].lane \in 0..(lanes - 1)
    /\ lanes >= 1 =>
          \A num \in 0..norm_den :
              LaneOf(num, norm_den, lanes) \in 0..(lanes - 1)

(* a chart with four lanes whose strongest candidate (intensity 1) got     *)
(* lane 3 and was followed by a note rotated from lane 3 to lane 0         *)
C27_Witness ==
    /\ Returned /\ lanes = 4
    /\ \E i \in 1..(Len(merged) - 1) :
          /\ norm[i] = norm_den /\ norm_den > 1
          /\ \E j \in 1..(Len(emitted) - 1) :
                /\ emitted[j] = Note(merged[i].time, 3)
                /\ emitted[j + 1].lane = 0
                /\ \E k \in (i + 1)..Len(merged) :
                      /\ merged[k].time = emitted[j + 1].time
                      /\ LaneOf(norm[k], norm_den, lanes) = 3

(* lines 65-102 as one function of the snapped candidate list *)
ChartOf(cands, diff, nl, dur) ==
    LET m == Dedup(cands)
        r == SpacingPass(m, NormNum(m), NormDen(m), diff, nl, Len(m))
    IN  Coverage(r.notes, dur, nl)

----------------------------------------------------------------------------
(* Further properties of RhythmGame.run *)

(* C29: a lane key reaches check_hit exactly in the Playing phase; in      *)
(* Countdown, Paused and Ended a lane key press calls no hit check and     *)
(* leaves the active notes, score, combo, maxCombo, multiplier, perfect    *)
(* streak, missedCount and accuracy unchanged; the pause flag changes only *)
(* after the countdown and before the end, so no session is paused in      *)
(* Countdown or Ended.                                                     *)
C29_KeysOnlyWhilePlaying ==
    /\ [](paused => ~countdown_active /\ ~game_ended)
    /\ [][/\ judged'.called => judged'.key /\ Playing
          /\ judged'.key =>
                IF Playing
                THEN judged'.called
                ELSE /\ ~judged'.called
                     /\ UNCHANGED <<self_notes, score, combo, max_combo,
                                    multiplier, perfect_hits_in_combo,
                                    missed_notes, accuracy>>
          /\ paused' # paused => ~countdown_active /\ ~game_ended]_vars

(* a lane key was pressed in a pause while a lane-0 note of the generated  *)
(* chart was within the perfect window: nothing was judged                 *)
C29_Witness ==
    /\ judged.key /\ ~judged.called
    /\ paused /\ beatmap = GeneratedChart
    /\ \E i \in 1..Len(self_notes) :
          /\ self_notes[i].lane = 0
          /\ Abs(self_notes[i].time - current_time) <= 2000
    /\ score = 0 /\ combo = 0 /\ Len(self_notes) = 2

----------------------------------------------------------------------------
(* Difficulty as a knob of generate_beatmap *)

(* the spacing pass of lines 75-92 on the deduplicated candidates of this  *)
(* run with another difficulty                                             *)
PassWith(d) == SpacingPass(merged, norm, norm_den, d, lanes, Len(merged))

(* the run has computed its deduplicated candidates and is about to enter  *)
(* the spacing pass                                                        *)
Deduplicated == gen_pc = "spacing" /\ duration > 0

(* C30: for the deduplicated candidates and the duration of a run and two  *)
(* difficulties d1 <= d2, the spacing pass with d2 emits no more notes     *)
(* than with d1, and the chart with its coverage notes is no longer.       *)
C30_DifficultyMonotone ==
    Deduplicated =>
        \A d1 \in Difficulties :
            LET p1 == PassWith(d1)
                len1 == Len(Coverage(p1.notes, duration, lanes))
            IN  ~p1.err =>
                    \A d2 \in {d \in Difficulties : d1 <= d} :
                        LET p2 == PassWith(d2)
                        IN  ~p2.err =>
                                /\ Len(p2.notes) <= Len(p1.notes)
                                /\ Len(Coverage(p2.notes, duration, lanes))
                                       <= len1

(* a returned chart where a larger difficulty would have emitted fewer     *)
(* real notes and got an end note instead, for a chart of the same length  *)
C30_Witness ==
    /\ Returned /\ duration > 0 /\ lanes >= 2
    /\ Len(emitted) >= 2
    /\ \E d2 \in Difficulties :
          /\ d2 > difficulty /\ difficulty > 0
          /\ ~PassWith(d2).err
          /\ Len(PassWith(d2).notes) < Len(emitted)
          /\ Len(Coverage(PassWith(d2).notes, duration, lanes)) = Len(notes)

----------------------------------------------------------------------------
(* Phases, score bounds and the late interval of RhythmGame *)

(* the number of the flags countdown_active, paused, game_ended that are   *)
(* set                                                                     *)
PhaseFlags ==
    (IF countdown_active THEN 1 ELSE 0) + (IF paused THEN 1 ELSE 0)
        + (IF game_ended THEN 1 ELSE 0)

(* C32: at most one of countdown_active, paused and game_ended is set, in  *)
(* every state and so at every frame boundary; a pause begins only in      *)
(* Playing, and the session ends only in a frame that is not paused.       *)
C32_OnePhase ==
    /\ [](PhaseFlags <= 1)
    /\ [][/\ PauseStep => Playing
          /\ EndStep => ~paused /\ ~paused' /\ ~countdown_active']_vars

(* the session on the generated chart was paused and resumed in Playing    *)
(* and has ended with both notes missed                                    *)
C32_Witness ==
    /\ beatmap = GeneratedChart
    /\ game_ended /\ ~paused /\ ~countdown_active
    /\ n_pauses = 1 /\ total_pause_time > 0
    /\ missed_notes = 2

(* C34: the score is a non-negative multiple of 100 and never decreases;   *)
(* a hit raises it by 100 times a multiplier of 1 to 7 and no other step   *)
(* changes it; 0 <= combo <= maxCombo <= totalNoteCount, and maxCombo      *)
(* never decreases.                                                        *)
C34_ScoreAndComboBounds ==
    /\ [](/\ score >= 0 /\ score % 100 = 0
          /\ 0 <= combo /\ combo <= max_combo
          /\ max_combo <= total_note_count)
    /\ [][/\ score' >= score
          /\ max_combo' >= max_combo
          /\ IF HitStep
             THEN /\ score' - score >= 100 /\ score' - score <= 700
                  /\ (score' - score) % 100 = 0
             ELSE score' = score]_vars

(* the hit of the last note of the long chart, after thirty Perfect hits,  *)
(* has added 700                                                           *)
C34_Witness ==
    /\ IsLong /\ judged.called /\ judged.idx > 0
    /\ self_notes = <<>>
    /\ combo = LongChartLen /\ max_combo = LongChartLen
    /\ multiplier = 7
    /\ score = 100 * (5 * (1 + 2 + 3 + 4 + 5 + 6) + 7)

(* the note is late at now by more than HIT_WINDOW and by no more than     *)
(* MISS_THRESHOLD                                                          *)
InLateInterval(note, now) ==
    /\ now - note.time > HIT_WINDOW
    /\ now - note.time <= MISS_THRESHOLD

(* the active notes of the pressed lane that are in the late interval at   *)
(* the press of the step                                                   *)
LatePressed ==
    {i \in 1..Len(self_notes) :
        /\ self_notes[i].lane = judged'.lane
        /\ InLateInterval(self_notes[i], judged'.now)}

(* C36 as claimed: a key press in the lane of an active note that is late  *)
(* by more than HIT_WINDOW and by no more than MISS_THRESHOLD is a whiff:  *)
(* it resets the combo and the multiplier and leaves the notes as they     *)
(* are.                                                                    *)
C36_LatePressIsWhiff ==
    [][judged'.called /\ LatePressed # {} =>
          /\ judged'.idx = 0
          /\ combo' = 0 /\ multiplier' = 1
          /\ self_notes' = self_notes]_vars

(* C36: a key press never hits a note of its lane that is late by more     *)
(* than HIT_WINDOW, and such a note stays active through the press; the    *)
(* press is a whiff (combo and multiplier reset, notes unchanged, no miss  *)
(* recorded) when no other note of the lane is within HIT_WINDOW, and it   *)
(* hits that other note otherwise; the miss sweep removes only notes late  *)
(* by more than MISS_THRESHOLD and records one miss for each.              *)
C36_LateNoteNotHit ==
    [][/\ judged'.called =>
            LET others == {i \in 1..Len(self_notes) :
                              /\ self_notes[i].lane = judged'.lane
                              /\ Abs(self_notes[i].time - judged'.now)
                                     <= HIT_WINDOW}
                late(n) == n.lane = judged'.lane
                               /\ judged'.now - n.time > HIT_WINDOW
            IN  /\ judged'.idx \notin LatePressed
                /\ SelectSeq(self_notes', late) = SelectSeq(self_notes, late)
                /\ LatePressed # {} /\ others = {} =>
                      /\ judged'.idx = 0
                      /\ combo' = 0 /\ multiplier' = 1
                      /\ perfect_hits_in_combo' = 0
                      /\ self_notes' = self_notes
                      /\ missed_notes' = missed_notes
                      /\ score' = score
                /\ LatePressed # {} /\ others # {} =>
                      /\ judged'.idx \in others
                      /\ Len(self_notes') = Len(self_notes) - 1
       /\ SweepStep =>
            /\ missed_notes' - missed_notes = Len(self_notes) - Len(self_notes')
            /\ self_notes' = SelectSeq(self_notes,
                   LAMBDA n : current_time - n.time <= MISS_THRESHOLD)
       /\ ~SweepStep => missed_notes' = missed_notes]_vars

(* a press in the lane of the twin notes, late by more than HIT_WINDOW and *)
(* not yet swept, was a whiff that left both active                        *)
C36_Witness ==
    /\ beatmap = TwinChart
    /\ judged.called /\ judged.idx = 0
    /\ Len(self_notes) = 2
    /\ \A i \in 1..2 :
          /\ self_notes[i].lane = judged.lane
          /\ InLateInterval(self_notes[i], judged.now)
    /\ combo = 0 /\ multiplier = 1 /\ missed_notes = 0

----------------------------------------------------------------------------
(* Equal energies in the spacing pass *)

(* the spacing pass of the run has ended without an error *)
Spaced == gen_pc = "coverage"

(* C35: when all deduplicated candidates have the same energy, every       *)
(* normalised intensity is 0 and, for lanes >= 2, the notes emitted by the *)
(* spacing pass alternate between the lanes 0 and 1, starting with lane 0; *)
(* a candidate skipped for spacing leaves last_t, last_lane and the notes  *)
(* emitted so far as they are.                                             *)
C35_EqualEnergiesAlternate ==
    Spaced =>
        LET n == Len(merged)
            p == [i \in 0..n |->
                     SpacingPass(merged, norm, norm_den, difficulty, lanes, i)]
        IN  /\ emitted = p[n].notes
            /\ Cardinality(EnergiesOf(merged)) <= 1 =>
                  /\ \A i \in 1..n : norm[i] = 0
                  /\ lanes >= 2 =>
                        \A k \in 1..Len(emitted) : emitted[k].lane = (k - 1) % 2
            /\ \A i \in 1..n :
                  merged[i].time - p[i - 1].last_t < difficulty =>
                      /\ p[i].last_t = p[i - 1].last_t
                      /\ p[i].last_lane = p[i - 1].last_lane
                      /\ p[i].notes = p[i - 1].notes

(* three candidates of equal energy of which the second was skipped for    *)
(* spacing, and the two emitted notes are in lanes 0 and 1                 *)
C35_Witness ==
    /\ Spaced /\ lanes >= 2
    /\ Len(merged) = 3 /\ Cardinality(EnergiesOf(merged)) = 1
    /\ merged[2].time - merged[1].time < difficulty
    /\ Len(emitted) = 2
    /\ emitted[1] = Note(merged[1].time, 0)
    /\ emitted[2] = Note(merged[3].time, 1)

----------------------------------------------------------------------------
(* Progress of a session *)

(* the session has ended with every note of the chart removed *)
Ended == game_ended /\ self_notes = <<>>

(* C31: a session that is not abandoned (running stays set), that is       *)
(* followed through its song, and in which every pause is resumed, removes *)
(* every note of its chart and reaches Ended.                              *)
C31_SessionEnds ==
    ([]running /\ []Followed /\ [](paused => <>~paused)) => <>Ended

(* the session on the twin notes was paused and resumed, one twin was hit  *)
(* and the other swept as a miss, and the session has ended while running  *)
C31_Witness ==
    /\ beatmap = TwinChart
    /\ Ended /\ running
    /\ n_pauses = 1 /\ ~paused /\ total_pause_time > 0
    /\ missed_notes = 1 /\ score = 100

----------------------------------------------------------------------------
(* The selection of the menu *)

(* C33 as claimed: under every interleaving of the search thread with the  *)
(* event handling of the main thread, when an event is handled             *)
(* selected_video_index is -1 or an index into search_results, and the     *)
(* Enter key and the search button never index search_results out of       *)
(* range.                                                                  *)
C33_SelectionValid ==
    /\ menu_pc = "events" =>
          \/ selected_video_index = -1
          \/ selected_video_index \in 0..(Len(search_results) - 1)
    /\ menu_pc # "raised"

====
